---- MODULE Spec2Model ----
(***************************************************************************)
(* itree: the tree model and navigation engine.                            *)
(*                                                                         *)
(* A walker stream (src/src/fs.rs) is turned into an arena tree by         *)
(* fs_to_tree, the tree is projected into display lines by Tree::draw      *)
(* (src/src/tree.rs), and the focus / fold operations of Tree mutate the   *)
(* focus cursor and the prev/next linkage of the lines.                    *)
(*                                                                         *)
(* Line indices are 0-based as in the source (line 0 is the root line).    *)
(* Node ids are the arena positions 1..K (the root is node 1).             *)
(***************************************************************************)
EXTENDS Integers, Sequences, FiniteSets, TLC

VARIABLES walk, tree, root, focused, focused_child, lines, n_files, n_dirs,
          status, hist, window, printed,
          options,    \* FsOptions: only_dirs
          measured,       \* the last result of visual_lines_for_line
          term,       \* term::navigate: where the loop is, what it has done
          loading,    \* main::build_tree_loading: builder, channel, loader thread
          pbuf        \* a util::PutBack over the walk, called on its own

vars == <<walk, tree, root, focused, focused_child, lines, n_files, n_dirs,
          status, hist, window, printed, options, measured, term, loading, pbuf>>

\* The parts of the program that the commands on a built Tree leave alone.
others == <<options, measured, term, loading, pbuf>>

(***************************************************************************)
(* Bounds of the model.                                                    *)
(***************************************************************************)
MaxEntries == 4      \* non-root Ok entries of a stream of directories only
MaxKindEntries == 3  \* non-root Ok entries of a stream of entries of every kind
MaxDepth == 3        \* deepest walker depth
MaxRenderEntries == 3 \* non-root Ok entries of a stream whose tree is rendered
MaxRenderKindEntries == 2 \* the same, for a stream of entries of every kind
MaxBudget == 4       \* largest line budget n handed to the windower
MaxBuildEntries == 2 \* non-root Ok entries of a stream with walker errors in it
MaxErrors == 2       \* walker error items of a stream
MaxOptionEntries == 3 \* non-root Ok entries of a stream built with either only_dirs
MaxTermEntries == 2  \* non-root Ok entries of a stream navigated interactively
MaxKeys == 3         \* keys read by the interactive loop
MaxTermRows == 2     \* rows of the terminal of the interactive loop
MaxLoadingEntries == 1 \* non-root Ok entries of a stream built beside the loader thread
MaxPutBackEntries == 3   \* entries after the root in the streams of SpecPutBack
MaxDots == 3         \* expired 1000 ms waits of the loader thread
MaxCostEntries == 2  \* non-root Ok entries of a stream whose lines are measured
MaxNameLen == 8      \* longest name of a root (bytes)
MaxWidth == 8        \* largest width handed to visual_lines_for_line alone

Widths == {8, 80}    \* terminal widths handed to the windower

(***************************************************************************)
(* Option<T>::None for node ids, line indices and stream items.            *)
(***************************************************************************)
NoNode == 0
None == -1
NoItem == [ok |-> FALSE, kind |-> "none", depth |-> 0, path |-> 0, nlen |-> 0]

(***************************************************************************)
(* The walker (external).  An Ok item is a DirEntry: its kind decides      *)
(* file_type() and path_is_symlink(), path is its identity, nlen the byte  *)
(* length of its file name.  An Err item carries the path it is about;     *)
(* kind "denied" is an Io error of kind PermissionDenied, "other" is any   *)
(* other walker error.  Kind "link" is a symlink to a file, "linkdir" a    *)
(* symlink to a directory (the walker does not follow it).  Path 0 is a    *)
(* path that no entry of the stream has.                                   *)
(***************************************************************************)
NameLen(kind) ==
    CASE kind = "dir" -> 1
      [] kind = "file" -> 2
      [] kind = "link" -> 3
      [] kind = "linkdir" -> 3
      [] OTHER -> 1

DirEnt(kind, depth, path) ==
    [ok |-> TRUE, kind |-> kind, depth |-> depth, path |-> path,
     nlen |-> NameLen(kind)]

WalkErr(kind, path) ==
    [ok |-> FALSE, kind |-> kind, depth |-> 0, path |-> path, nlen |-> 0]

\* The last Ok entry of a stream (the stream starts with the Ok root).
RECURSIVE LastOk(_)
LastOk(s) == IF s[Len(s)].ok THEN s[Len(s)] ELSE LastOk(SubSeq(s, 1, Len(s) - 1))

NumOk(s) == Cardinality({i \in 1..Len(s) : s[i].ok})

\* May the walker descend below the last entry of s?  Only into a directory
\* that it could list (no permission-denied error reported for it).
CanDescend(s) == s[Len(s)].ok /\ s[Len(s)].kind = "dir"

\* The streams that extend s by one more entry.  A leaf entry is a
\* directory, a file, a symlink, or a directory immediately followed by the
\* permission-denied error of listing it.
Extend(s, leafKinds) ==
    LET last == LastOk(s)
        maxd == IF CanDescend(s) THEN last.depth + 1 ELSE last.depth
        p    == Len(s) + 1
    IN  { Append(s, DirEnt(k, d, p)) :
            d \in {x \in 1..maxd : x <= MaxDepth}, k \in leafKinds \ {"denied"} }
        \cup
        IF "denied" \in leafKinds
        THEN { Append(Append(s, DirEnt("dir", d, p)), WalkErr("denied", p)) :
                 d \in {x \in 1..maxd : x <= MaxDepth} }
        ELSE {}

RECURSIVE StreamsOf(_, _)
StreamsOf(n, leafKinds) ==
    IF n = 0 THEN { <<DirEnt("dir", 0, 1)>> }
    ELSE LET shorter == StreamsOf(n - 1, leafKinds)
         IN  shorter \cup
             UNION { Extend(s, leafKinds) : s \in {t \in shorter : NumOk(t) = n} }

\* A walk rooted at a plain file or at standard input ("-") yields the root
\* alone.
LoneRoots == { <<DirEnt("file", 0, 1)>>, <<DirEnt("stdin", 0, 1)>> }

NavStreams ==
    StreamsOf(MaxEntries, {"dir"})
    \cup StreamsOf(MaxKindEntries, {"dir", "file", "link", "denied"})
    \cup LoneRoots

RenderStreams ==
    StreamsOf(MaxRenderEntries, {"dir", "file"})
    \cup StreamsOf(MaxRenderKindEntries, {"dir", "file", "link", "denied"})

\* The walker errors that may follow the items of s: an error about some
\* other path, or the permission-denied error of listing the directory
\* that was just yielded.
ErrorsAfter(s) ==
    {WalkErr("other", 0), WalkErr("denied", 0)}
    \cup IF s[Len(s)].ok /\ s[Len(s)].kind = "dir"
         THEN {WalkErr("denied", s[Len(s)].path)} ELSE {}

NumErr(s) == Cardinality({i \in 1..Len(s) : ~s[i].ok})

\* May the walker yield entries below the last entry of s?  Only below a
\* directory that was not reported permission-denied.
Listable(s) ==
    /\ LastOk(s).kind = "dir"
    /\ \A i \in 1..Len(s) : s[i] # WalkErr("denied", LastOk(s).path)

\* The streams that extend s by one item, an entry or an error.
ExtendAny(s) ==
    LET last == LastOk(s)
        maxd == IF Listable(s) THEN last.depth + 1 ELSE last.depth
    IN  (IF NumOk(s) <= MaxBuildEntries
         THEN { Append(s, DirEnt(k, d, Len(s) + 1)) :
                  d \in {x \in 1..maxd : x <= MaxDepth},
                  k \in {"dir", "file", "link", "linkdir"} }
         ELSE {})
        \cup
        (IF NumErr(s) < MaxErrors THEN { Append(s, e) : e \in ErrorsAfter(s) } ELSE {})

\* The streams of at most n items after an Ok root.
RECURSIVE WalksOf(_)
WalksOf(n) ==
    IF n = 0 THEN { <<DirEnt("dir", 0, 1)>> }
    ELSE LET shorter == WalksOf(n - 1)
         IN  shorter \cup UNION { ExtendAny(s) : s \in {t \in shorter : Len(t) = n} }

\* A walker that yields nothing, and one whose first item is an error (the
\* root path does not exist).
RootlessWalks == { <<>>, <<WalkErr("other", 1)>> }

BuildStreams == WalksOf(MaxBuildEntries + MaxErrors) \cup RootlessWalks

(***************************************************************************)
(* ignore::DirEntry accessors.                                             *)
(***************************************************************************)
\* de.file_type(): "none" is Option::None (standard input).
file_type(de) ==
    CASE de.kind = "dir" -> "dir"
      [] de.kind = "file" -> "file"
      [] de.kind = "link" -> "symlink"
      [] de.kind = "linkdir" -> "symlink"
      [] OTHER -> "none"

path_is_symlink(de) == de.kind \in {"link", "linkdir"}

\* is_or_points_to_dir without the metadata() of what a symlink points to.
is_or_points_to_dir_NoMetadata(de) == file_type(de) = "dir"

is_or_points_to_dir(de) ==
    CASE file_type(de) = "none" -> FALSE
      [] file_type(de) = "dir" -> TRUE
      [] file_type(de) = "file" -> FALSE
      [] OTHER -> de.kind = "linkdir"    \* metadata(path).is_dir()

\* path_to_string(read_link(path)): the name of what the symlink points to.
read_link(de) == <<"target of", de.path>>

\* The payload of FileType::LinkTo for the kinds that have none.
NoDest == <<>>

\* `dest` is the String of FileType::LinkTo(dest).
de_to_fsentry(de) ==
    [ft |-> IF path_is_symlink(de) THEN "LinkTo"
            ELSE CASE file_type(de) = "none" -> "Stdin"
                   [] file_type(de) = "dir" -> "Dir"
                   [] OTHER -> "File",
     dest |-> IF path_is_symlink(de) THEN read_link(de) ELSE NoDest,
     de |-> de, name |-> de.nlen]

root_to_fsentry(de) == [ft |-> "Dir", dest |-> NoDest, de |-> de, name |-> de.nlen]

(***************************************************************************)
(* indextree::Arena, as the sequences of its nodes' parent, children and   *)
(* data.  Node ids are 1..Len(t.parent).                                   *)
(***************************************************************************)
EmptyArena == [parent |-> <<>>, kids |-> <<>>, data |-> <<>>]

Nodes(t) == 1..Len(t.parent)

new_node(t, data) ==
    [parent |-> Append(t.parent, NoNode),
     kids |-> Append(t.kids, <<>>),
     data |-> Append(t.data, data)]

\* node.append(new_node, tree)
append(t, node, new) ==
    [t EXCEPT !.parent[new] = node, !.kids[node] = Append(@, new)]

add_child_to_tree(t, node, data) ==
    LET new == Len(t.parent) + 1
    IN  append(new_node(t, data), node, new)

parent(t, n) == t.parent[n]
first_child(t, n) == IF t.kids[n] = <<>> THEN NoNode ELSE t.kids[n][1]
last_child(t, n) == IF t.kids[n] = <<>> THEN NoNode ELSE t.kids[n][Len(t.kids[n])]

\* Position of n among the children of its parent.
SibPos(t, n) == CHOOSE i \in 1..Len(t.kids[t.parent[n]]) : t.kids[t.parent[n]][i] = n

next_sibling(t, n) ==
    IF t.parent[n] = NoNode THEN NoNode
    ELSE IF SibPos(t, n) = Len(t.kids[t.parent[n]]) THEN NoNode
    ELSE t.kids[t.parent[n]][SibPos(t, n) + 1]

previous_sibling(t, n) ==
    IF t.parent[n] = NoNode THEN NoNode
    ELSE IF SibPos(t, n) = 1 THEN NoNode
    ELSE t.kids[t.parent[n]][SibPos(t, n) - 1]

(***************************************************************************)
(* util::PutBack over the walker: `it` is the position of the next unread  *)
(* item of the stream, `slot` the put-back item.                           *)
(***************************************************************************)
PutBack_new == [it |-> 1, slot |-> NoItem]

\* PutBack::next: the item (NoItem for Option::None) and the iterator after.
PutBack_next(s, pb) ==
    IF pb.slot # NoItem THEN [item |-> pb.slot, pb |-> [pb EXCEPT !.slot = NoItem]]
    ELSE IF pb.it <= Len(s) THEN [item |-> s[pb.it], pb |-> [pb EXCEPT !.it = @ + 1]]
    ELSE [item |-> NoItem, pb |-> pb]

\* The panic of put_back, told apart from the other panics of the build.
ON_DECK == "panic: PutBack already had a put-back item on-deck!"

\* PutBack::put_back: panics when an item is already on deck.
put_back(pb, item) ==
    IF pb.slot = NoItem THEN [pb |-> [pb EXCEPT !.slot = item], status |-> "ok"]
    ELSE [pb |-> pb, status |-> ON_DECK]

(***************************************************************************)
(* fs::DepthChange                                                         *)
(***************************************************************************)
for_depths(next, curr) ==
    IF next < curr THEN [tag |-> "Last", d |-> curr - next]
    ELSE IF next > curr THEN [tag |-> "NextIsFirst", d |-> 0]
    ELSE [tag |-> "Isnt", d |-> 0]

\* determine_place_in_tree without the comparison of the error's path with
\* the path of the entry.
RECURSIVE determine_place_in_tree_AnyDenied(_, _, _, _)
determine_place_in_tree_AnyDenied(s, pb, fse, only_dirs) ==
    LET r == PutBack_next(s, pb)
    IN  IF r.item = NoItem
        THEN [pb |-> r.pb, fse |-> fse, dc |-> [tag |-> "Last", d |-> 0], status |-> "ok"]
        ELSE IF r.item.ok
        THEN IF only_dirs /\ ~is_or_points_to_dir(r.item)
             THEN determine_place_in_tree_AnyDenied(s, r.pb, fse, only_dirs)
             ELSE LET back == put_back(r.pb, r.item)
                  IN  [pb |-> back.pb, fse |-> fse,
                       dc |-> for_depths(r.item.depth, fse.de.depth),
                       status |-> back.status]
        ELSE IF r.item.kind = "denied"
        THEN determine_place_in_tree_AnyDenied(
                 s, r.pb, [fse EXCEPT !.ft = "RestrictedDir", !.dest = NoDest], only_dirs)
        ELSE determine_place_in_tree_AnyDenied(s, r.pb, fse, only_dirs)

\* determine_place_in_tree that stops at a non-directory under only_dirs too.
RECURSIVE determine_place_in_tree_KeepFiles(_, _, _, _)
determine_place_in_tree_KeepFiles(s, pb, fse, only_dirs) ==
    LET r == PutBack_next(s, pb)
    IN  IF r.item = NoItem
        THEN [pb |-> r.pb, fse |-> fse, dc |-> [tag |-> "Last", d |-> 0], status |-> "ok"]
        ELSE IF r.item.ok
        THEN LET back == put_back(r.pb, r.item)
             IN  [pb |-> back.pb, fse |-> fse,
                  dc |-> for_depths(r.item.depth, fse.de.depth),
                  status |-> back.status]
        ELSE IF r.item.kind = "denied" /\ r.item.path = fse.de.path
        THEN determine_place_in_tree_KeepFiles(
                 s, r.pb, [fse EXCEPT !.ft = "RestrictedDir", !.dest = NoDest], only_dirs)
        ELSE determine_place_in_tree_KeepFiles(s, r.pb, fse, only_dirs)

\* fs::determine_place_in_tree: the lookahead after reading the entry fse.
RECURSIVE determine_place_in_tree(_, _, _, _)
\* determine_place_in_tree that puts the entry it read back twice.
RECURSIVE determine_place_in_tree_PutBackTwice(_, _, _, _)
determine_place_in_tree_PutBackTwice(s, pb, fse, only_dirs) ==
    LET r == PutBack_next(s, pb)
    IN  IF r.item = NoItem
        THEN [pb |-> r.pb, fse |-> fse, dc |-> [tag |-> "Last", d |-> 0], status |-> "ok"]
        ELSE IF r.item.ok
        THEN IF only_dirs /\ ~is_or_points_to_dir(r.item)
             THEN determine_place_in_tree_PutBackTwice(s, r.pb, fse, only_dirs)
             ELSE LET back == put_back(put_back(r.pb, r.item).pb, r.item)
                  IN  [pb |-> back.pb, fse |-> fse,
                       dc |-> for_depths(r.item.depth, fse.de.depth),
                       status |-> back.status]
        ELSE IF r.item.kind = "denied" /\ r.item.path = fse.de.path
        THEN determine_place_in_tree_PutBackTwice(
                 s, r.pb, [fse EXCEPT !.ft = "RestrictedDir", !.dest = NoDest], only_dirs)
        ELSE determine_place_in_tree_PutBackTwice(s, r.pb, fse, only_dirs)

determine_place_in_tree(s, pb, fse, only_dirs) ==
    LET r == PutBack_next(s, pb)
    IN  IF r.item = NoItem
        THEN [pb |-> r.pb, fse |-> fse, dc |-> [tag |-> "Last", d |-> 0], status |-> "ok"]
        ELSE IF r.item.ok
        THEN IF only_dirs /\ ~is_or_points_to_dir(r.item)
             THEN determine_place_in_tree(s, r.pb, fse, only_dirs)
             ELSE LET back == put_back(r.pb, r.item)
                  IN  [pb |-> back.pb, fse |-> fse,
                       dc |-> for_depths(r.item.depth, fse.de.depth),
                       status |-> back.status]
        ELSE IF r.item.kind = "denied" /\ r.item.path = fse.de.path
        THEN determine_place_in_tree(
                 s, r.pb, [fse EXCEPT !.ft = "RestrictedDir", !.dest = NoDest], only_dirs)
        ELSE determine_place_in_tree(s, r.pb, fse, only_dirs)

\* The climb that stops after one level.
ClimbUp_OneLevel(t, curr, d) ==
    IF d = 0 THEN curr ELSE parent(t, curr)

\* `for _ in 0..d { curr = tree[curr].parent().expect(..) }`: NoNode when the
\* expect fails.
RECURSIVE ClimbUp(_, _, _)
ClimbUp(t, curr, d) ==
    IF d = 0 THEN curr
    ELSE IF parent(t, curr) = NoNode THEN NoNode
    ELSE ClimbUp(t, parent(t, curr), d - 1)

\* The main loop of fs_to_tree; b is the builder's state.
RECURSIVE BuildLoop(_, _, _)
BuildLoop(s, b, only_dirs) ==
    LET r == PutBack_next(s, b.pb)
    IN  IF b.status # "ok" \/ r.item = NoItem THEN b
        ELSE IF ~r.item.ok THEN [b EXCEPT !.status = "panic"]
        ELSE IF ~is_or_points_to_dir(r.item) /\ only_dirs
        THEN BuildLoop(s, [b EXCEPT !.pb = r.pb], only_dirs)
        ELSE
        LET isdir == is_or_points_to_dir(r.item)
            place == determine_place_in_tree(s, r.pb, de_to_fsentry(r.item), only_dirs)
            t2    == add_child_to_tree(b.tree, b.curr, place.fse)
            new   == Len(t2.parent)
            up    == ClimbUp(t2, b.curr, place.dc.d)
            b2    == [b EXCEPT !.pb = place.pb,
                               !.tree = t2,
                               !.n_dirs = IF isdir THEN @ + 1 ELSE @,
                               !.n_files = IF isdir THEN @ ELSE @ + 1]
        IN  IF place.status # "ok" THEN [b2 EXCEPT !.status = place.status]
            ELSE IF place.dc.tag = "NextIsFirst"
            THEN BuildLoop(s, [b2 EXCEPT !.curr = new], only_dirs)
            ELSE IF place.dc.tag = "Isnt"
            THEN BuildLoop(s, b2, only_dirs)
            ELSE IF up = NoNode THEN [b2 EXCEPT !.status = "panic"]
            ELSE BuildLoop(s, [b2 EXCEPT !.curr = up], only_dirs)

\* fs::fs_to_tree on the walker stream s.
fs_to_tree(s, only_dirs) ==
    LET r == PutBack_next(s, PutBack_new)
        b0 == [pb |-> r.pb, tree |-> EmptyArena, root |-> NoNode, curr |-> NoNode,
               n_files |-> 0, n_dirs |-> 0, status |-> "ok"]
    IN  IF r.item = NoItem THEN [b0 EXCEPT !.status = "panic"]      \* unreachable!()
        ELSE IF ~r.item.ok THEN [b0 EXCEPT !.status = "exit"]       \* process::exit
        ELSE BuildLoop(s, [b0 EXCEPT !.tree = new_node(EmptyArena, root_to_fsentry(r.item)),
                                     !.root = 1, !.curr = 1], only_dirs)

(***************************************************************************)
(* tree::TreeLines and Tree::draw.  A prefix is the sequence of its        *)
(* pieces; PrefixLen is String::len() of the prefix (bytes of UTF-8).      *)
(***************************************************************************)
MID_BRANCH == "Mid"
END_BRANCH == "End"
BLANK_INDENT == "Blank"
BAR_INDENT == "Bar"

PieceLen(piece) ==
    CASE piece = MID_BRANCH -> 9      \* three 3-byte box characters
      [] piece = END_BRANCH -> 9
      [] piece = BAR_INDENT -> 6      \* one box character and three spaces
      [] piece = BLANK_INDENT -> 4

RECURSIVE PrefixLen(_)
PrefixLen(prefix) ==
    IF prefix = <<>> THEN 0 ELSE PieceLen(Head(prefix)) + PrefixLen(Tail(prefix))

TreeLines_new == [inds |-> <<>>, lines |-> <<>>, folded |-> {}, count |-> 0]

\* add recording the index of the line before the one it pushes.
add_PrevIndex(tl, node, prefix) ==
    [inds |-> (node :> IF tl.count = 0 THEN 0 ELSE tl.count - 1) @@ tl.inds,
     lines |-> (tl.count :> [node |-> node, prefix |-> prefix,
                             prev |-> IF tl.count = 0 THEN None ELSE tl.count - 1,
                             next |-> tl.count + 1]) @@ tl.lines,
     folded |-> tl.folded,
     count |-> tl.count + 1]

\* add linking no line to the line before it.
add_NoPrev(tl, node, prefix) ==
    [inds |-> (node :> tl.count) @@ tl.inds,
     lines |-> (tl.count :> [node |-> node, prefix |-> prefix,
                             prev |-> None,
                             next |-> tl.count + 1]) @@ tl.lines,
     folded |-> tl.folded,
     count |-> tl.count + 1]

add(tl, node, prefix) ==
    [inds |-> (node :> tl.count) @@ tl.inds,
     lines |-> (tl.count :> [node |-> node, prefix |-> prefix,
                             prev |-> IF tl.count = 0 THEN None ELSE tl.count - 1,
                             next |-> tl.count + 1]) @@ tl.lines,
     folded |-> tl.folded,
     count |-> tl.count + 1]

\* draw_from pushing Indent::Bar for every child.
RECURSIVE draw_from_BarOnly(_, _, _, _, _)
draw_from_BarOnly(tl, t, node, indents, i) ==
    IF i > Len(t.kids[node]) THEN tl
    ELSE LET child == t.kids[node][i]
             last  == child = last_child(t, node)
             prefix == Append(indents, IF last THEN END_BRANCH ELSE MID_BRANCH)
             drawn == add(tl, child, prefix)
             below == draw_from_BarOnly(drawn, t, child, Append(indents, BAR_INDENT), 1)
         IN  draw_from_BarOnly(below, t, node, indents, i + 1)

\* draw_from ending every prefix with MID_BRANCH.
RECURSIVE draw_from_MidOnly(_, _, _, _, _)
draw_from_MidOnly(tl, t, node, indents, i) ==
    IF i > Len(t.kids[node]) THEN tl
    ELSE LET child == t.kids[node][i]
             last  == child = last_child(t, node)
             prefix == Append(indents, MID_BRANCH)
             drawn == add(tl, child, prefix)
             below == draw_from_MidOnly(drawn, t, child,
                                        Append(indents, IF last THEN BLANK_INDENT ELSE BAR_INDENT), 1)
         IN  draw_from_MidOnly(below, t, node, indents, i + 1)

\* Tree::draw_from, from the i-th child of node on.
RECURSIVE draw_from(_, _, _, _, _)
draw_from(tl, t, node, indents, i) ==
    IF i > Len(t.kids[node]) THEN tl
    ELSE LET child == t.kids[node][i]
             last  == child = last_child(t, node)
             prefix == Append(indents, IF last THEN END_BRANCH ELSE MID_BRANCH)
             drawn == add(tl, child, prefix)
             below == draw_from(drawn, t, child,
                                Append(indents, IF last THEN BLANK_INDENT ELSE BAR_INDENT), 1)
         IN  draw_from(below, t, node, indents, i + 1)

draw(t, r) == draw_from(add(TreeLines_new, r, <<>>), t, r, <<>>, 1)

\* new_with_options focusing the root.
new_with_options_FocusRoot(s, only_dirs) ==
    LET b == fs_to_tree(s, only_dirs)
    IN  IF b.status # "ok"
        THEN [tree |-> b.tree, root |-> b.root, focused |-> NoNode,
              focused_child |-> <<>>, lines |-> TreeLines_new,
              n_files |-> b.n_files, n_dirs |-> b.n_dirs, status |-> b.status]
        ELSE
        [tree |-> b.tree, root |-> b.root,
         focused |-> b.root,
         focused_child |-> <<>>,
         lines |-> draw(b.tree, b.root),
         n_files |-> b.n_files, n_dirs |-> b.n_dirs,
         status |-> b.status]

\* new_with_options focusing the last child of the root.
new_with_options_FocusLast(s, only_dirs) ==
    LET b == fs_to_tree(s, only_dirs)
    IN  IF b.status # "ok"
        THEN [tree |-> b.tree, root |-> b.root, focused |-> NoNode,
              focused_child |-> <<>>, lines |-> TreeLines_new,
              n_files |-> b.n_files, n_dirs |-> b.n_dirs, status |-> b.status]
        ELSE
        [tree |-> b.tree, root |-> b.root,
         focused |-> IF last_child(b.tree, b.root) # NoNode
                     THEN last_child(b.tree, b.root) ELSE b.root,
         focused_child |-> <<>>,
         lines |-> draw(b.tree, b.root),
         n_files |-> b.n_files, n_dirs |-> b.n_dirs,
         status |-> b.status]

\* Tree::new_with_options: the Tree built from the walker stream s.
new_with_options(s, only_dirs) ==
    LET b == fs_to_tree(s, only_dirs)
    IN  IF b.status # "ok"        \* fs_to_tree did not return: there is no Tree
        THEN [tree |-> b.tree, root |-> b.root, focused |-> NoNode,
              focused_child |-> <<>>, lines |-> TreeLines_new,
              n_files |-> b.n_files, n_dirs |-> b.n_dirs, status |-> b.status]
        ELSE
        [tree |-> b.tree, root |-> b.root,
         focused |-> IF first_child(b.tree, b.root) # NoNode
                     THEN first_child(b.tree, b.root) ELSE b.root,
         focused_child |-> <<>>,
         lines |-> draw(b.tree, b.root),
         n_files |-> b.n_files, n_dirs |-> b.n_dirs,
         status |-> b.status]

(***************************************************************************)
(* The operations of tree::Tree.  `self` is the Tree: the record of its    *)
(* fields tree, root, focused, focused_child, lines, plus `status`, which  *)
(* becomes "panic" when the operation panics.                              *)
(***************************************************************************)
focused_line_ind(self) == self.lines.inds[self.focused]

\* focus_up without the `p == self.root` test.
focus_up_IntoRoot(self) ==
    LET p == parent(self.tree, self.focused)
    IN  IF p = NoNode THEN self
        ELSE [self EXCEPT !.focused_child = (p :> self.focused) @@ @,
                          !.focused = p]

\* focus_up without the insert into focused_child.
focus_up_NoRecord(self) ==
    LET p == parent(self.tree, self.focused)
    IN  IF p = NoNode THEN self
        ELSE IF p = self.root THEN self
        ELSE [self EXCEPT !.focused = p]

\* focus_up recording the parent itself as the remembered child.
focus_up_RecordSelf(self) ==
    LET p == parent(self.tree, self.focused)
    IN  IF p = NoNode THEN self
        ELSE IF p = self.root THEN self
        ELSE [self EXCEPT !.focused_child = (p :> p) @@ @,
                          !.focused = p]

focus_up(self) ==
    LET p == parent(self.tree, self.focused)
    IN  IF p = NoNode THEN self
        ELSE IF p = self.root THEN self
        ELSE [self EXCEPT !.focused_child = (p :> self.focused) @@ @,
                          !.focused = p]

\* focus_down testing the fold before the remembered child.
focus_down_FoldFirst(self) ==
    IF focused_line_ind(self) \in self.lines.folded THEN self
    ELSE IF self.focused \in DOMAIN self.focused_child
    THEN [self EXCEPT !.focused = self.focused_child[self.focused]]
    ELSE IF first_child(self.tree, self.focused) = NoNode THEN self
    ELSE [self EXCEPT !.focused = first_child(self.tree, self.focused)]

\* focus_down that never consults focused_child.
focus_down_NoMemory(self) ==
    IF first_child(self.tree, self.focused) = NoNode THEN self
    ELSE IF focused_line_ind(self) \in self.lines.folded THEN self
    ELSE [self EXCEPT !.focused = first_child(self.tree, self.focused)]

focus_down(self) ==
    IF self.focused \in DOMAIN self.focused_child
    THEN [self EXCEPT !.focused = self.focused_child[self.focused]]
    ELSE IF first_child(self.tree, self.focused) = NoNode THEN self
    ELSE IF focused_line_ind(self) \in self.lines.folded THEN self
    ELSE [self EXCEPT !.focused = first_child(self.tree, self.focused)]

focus_left(self) ==
    IF previous_sibling(self.tree, self.focused) = NoNode THEN self
    ELSE [self EXCEPT !.focused = previous_sibling(self.tree, self.focused)]

\* focus_right moving to the node of the next line instead of the next sibling.
focus_right_ByLine(self) ==
    LET n == self.lines.lines[focused_line_ind(self)].next
    IN  IF n \notin DOMAIN self.lines.lines THEN self
        ELSE [self EXCEPT !.focused = self.lines.lines[n].node]

focus_right(self) ==
    IF next_sibling(self.tree, self.focused) = NoNode THEN self
    ELSE [self EXCEPT !.focused = next_sibling(self.tree, self.focused)]

\* The last child instead of the deepest last descendant.
LastDescendant_OneLevel(t, ptr) ==
    IF last_child(t, ptr) = NoNode THEN ptr ELSE last_child(t, ptr)

\* `while let Some(c) = self.tree[ptr].last_child() { ptr = c; }`
RECURSIVE LastDescendant(_, _)
LastDescendant(t, ptr) ==
    IF last_child(t, ptr) = NoNode THEN ptr ELSE LastDescendant(t, last_child(t, ptr))

\* unfold_focus that also unfolds every line of the subtree.
unfold_focus_ResetSubtree(self) ==
    LET f_ind == focused_line_ind(self)
        ptr   == LastDescendant(self.tree, self.focused)
        n_ind == self.lines.lines[f_ind].next
        inside == {i \in DOMAIN self.lines.lines : f_ind <= i /\ i < n_ind}
        relinked == IF n_ind < self.lines.count
                    THEN [self.lines.lines EXCEPT ![n_ind].prev = self.lines.inds[ptr]]
                    ELSE self.lines.lines
    IN  [self EXCEPT !.lines.lines = [i \in DOMAIN relinked |->
                                         IF i \in inside
                                         THEN [relinked[i] EXCEPT !.next = i + 1]
                                         ELSE relinked[i]],
                     !.lines.folded = @ \ inside]

unfold_focus(self) ==
    LET f_ind == focused_line_ind(self)
        ptr   == LastDescendant(self.tree, self.focused)
        n_ind == self.lines.lines[f_ind].next
        relinked == IF n_ind < self.lines.count
                    THEN [self.lines.lines EXCEPT ![n_ind].prev = self.lines.inds[ptr]]
                    ELSE self.lines.lines
    IN  [self EXCEPT !.lines.lines = [relinked EXCEPT ![f_ind].next = f_ind + 1],
                     !.lines.folded = @ \ {f_ind}]

\* The walk of fold_focus without the climb to the parent.
SubtreeSuccessor_NoClimb(t, p) ==
    IF p = NoNode THEN NoNode ELSE next_sibling(t, p)

\* The walk of fold_focus from p: the next sibling of p or of its nearest
\* ancestor that has one, NoNode when there is none.
RECURSIVE SubtreeSuccessor(_, _)
SubtreeSuccessor(t, p) ==
    IF p = NoNode THEN NoNode
    ELSE IF next_sibling(t, p) # NoNode THEN next_sibling(t, p)
    ELSE SubtreeSuccessor(t, parent(t, p))

\* fold_focus that links the successor's prev to the successor itself.
fold_focus_PrevSelf(self) ==
    LET ftype == file_type(self.tree.data[self.focused].de)
        ptr   == SubtreeSuccessor(self.tree, self.focused)
        new_next == IF ptr # NoNode THEN self.lines.inds[ptr] ELSE self.lines.count
        f_ind == focused_line_ind(self)
        relinked == IF new_next < self.lines.count
                    THEN [self.lines.lines EXCEPT ![new_next].prev = new_next]
                    ELSE self.lines.lines
    IN  IF ftype = "none" THEN [self EXCEPT !.status = "panic"]
        ELSE IF ftype # "dir" THEN self
        ELSE [self EXCEPT !.lines.lines = [relinked EXCEPT ![f_ind].next = new_next],
                          !.lines.folded = @ \cup {f_ind}]

\* fold_focus that also forgets the remembered child of the folded node.
fold_focus_ForgetChild(self) ==
    LET ftype == file_type(self.tree.data[self.focused].de)
        ptr   == SubtreeSuccessor(self.tree, self.focused)
        new_next == IF ptr # NoNode THEN self.lines.inds[ptr] ELSE self.lines.count
        f_ind == focused_line_ind(self)
        relinked == IF new_next < self.lines.count
                    THEN [self.lines.lines EXCEPT ![new_next].prev = self.lines.inds[self.focused]]
                    ELSE self.lines.lines
    IN  IF ftype = "none" THEN [self EXCEPT !.status = "panic"]
        ELSE IF ftype # "dir" THEN self
        ELSE [self EXCEPT !.lines.lines = [relinked EXCEPT ![f_ind].next = new_next],
                          !.lines.folded = @ \cup {f_ind},
                          !.focused_child = [q \in DOMAIN @ \ {self.focused} |-> @[q]]]

\* fold_focus that writes a fresh line, without its prefix, for the focus.
fold_focus_FreshLine(self) ==
    LET ftype == file_type(self.tree.data[self.focused].de)
        ptr   == SubtreeSuccessor(self.tree, self.focused)
        new_next == IF ptr # NoNode THEN self.lines.inds[ptr] ELSE self.lines.count
        f_ind == focused_line_ind(self)
        relinked == IF new_next < self.lines.count
                    THEN [self.lines.lines EXCEPT ![new_next].prev = self.lines.inds[self.focused]]
                    ELSE self.lines.lines
    IN  IF ftype = "none" THEN [self EXCEPT !.status = "panic"]
        ELSE IF ftype # "dir" THEN self
        ELSE [self EXCEPT !.lines.lines = [relinked EXCEPT ![f_ind].next = new_next,
                                                           ![f_ind].prefix = <<>>],
                          !.lines.folded = @ \cup {f_ind}]

fold_focus(self) ==
    LET ftype == file_type(self.tree.data[self.focused].de)
        ptr   == SubtreeSuccessor(self.tree, self.focused)
        new_next == IF ptr # NoNode THEN self.lines.inds[ptr] ELSE self.lines.count
        f_ind == focused_line_ind(self)
        relinked == IF new_next < self.lines.count
                    THEN [self.lines.lines EXCEPT ![new_next].prev = self.lines.inds[self.focused]]
                    ELSE self.lines.lines
    IN  IF ftype = "none" THEN [self EXCEPT !.status = "panic"]   \* file_type().unwrap()
        ELSE IF ftype # "dir" THEN self
        ELSE [self EXCEPT !.lines.lines = [relinked EXCEPT ![f_ind].next = new_next],
                          !.lines.folded = @ \cup {f_ind}]

\* toggle_focus_fold without the test of the entry's kind.
toggle_focus_fold_AnyKind(self) ==
    IF focused_line_ind(self) \in self.lines.folded
    THEN unfold_focus(self)
    ELSE fold_focus(self)

\* toggle_focus_fold that leaves out only plain files.
toggle_focus_fold_NotFile(self) ==
    IF self.tree.data[self.focused].ft # "File"
    THEN IF focused_line_ind(self) \in self.lines.folded
         THEN unfold_focus(self)
         ELSE fold_focus(self)
    ELSE self

toggle_focus_fold(self) ==
    IF self.tree.data[self.focused].ft = "Dir"
    THEN IF focused_line_ind(self) \in self.lines.folded
         THEN unfold_focus(self)
         ELSE fold_focus(self)
    ELSE self

(***************************************************************************)
(* Rendering and paging.                                                   *)
(***************************************************************************)
\* visual_lines_for_line without the space between prefix and name.
visual_lines_for_line_NoSpace(self, l_ind, width) ==
    LET line == self.lines.lines[l_ind]
        pl   == PrefixLen(line.prefix) + self.tree.data[line.node].name
    IN  (pl \div width) + 1

visual_lines_for_line(self, l_ind, width) ==
    LET line == self.lines.lines[l_ind]
        pl0  == PrefixLen(line.prefix)
        pl   == (IF pl0 # 0 THEN pl0 + 1 ELSE pl0) + self.tree.data[line.node].name
    IN  (pl \div width) + 1

\* `self.lines.lines.get(i)` is Some
IsLine(self, i) == i \in DOMAIN self.lines.lines

\* First loop: roll the start back n/2 spaces; diff is start_diff.
RECURSIVE RollStart(_, _, _, _, _)
RollStart(self, start, i, space, width) ==
    IF ~(i < space) THEN [at |-> start, diff |-> 0, oob |-> FALSE]
    ELSE IF ~IsLine(self, start) THEN [at |-> start, diff |-> 0, oob |-> TRUE]
    ELSE IF self.lines.lines[start].prev # None
    THEN RollStart(self, self.lines.lines[start].prev,
                   i + visual_lines_for_line(self, start, width), space, width)
    ELSE [at |-> start, diff |-> space - i, oob |-> FALSE]

\* The second loop without `end += 1` at the end of the list.
RECURSIVE RollEnd_NoBump(_, _, _, _, _)
RollEnd_NoBump(self, end, i, end_max, width) ==
    IF ~(i < end_max) THEN [at |-> end, diff |-> 0, oob |-> FALSE]
    ELSE IF ~IsLine(self, end) THEN [at |-> end, diff |-> 0, oob |-> TRUE]
    ELSE IF IsLine(self, self.lines.lines[end].next)
    THEN RollEnd_NoBump(self, self.lines.lines[end].next,
                        i + visual_lines_for_line(self, end, width), end_max, width)
    ELSE [at |-> end, diff |-> end_max - i - 1, oob |-> FALSE]

\* Second loop: roll the end forward end_max spaces; diff is end_diff.
RECURSIVE RollEnd(_, _, _, _, _)
RollEnd(self, end, i, end_max, width) ==
    IF ~(i < end_max) THEN [at |-> end, diff |-> 0, oob |-> FALSE]
    ELSE IF ~IsLine(self, end) THEN [at |-> end, diff |-> 0, oob |-> TRUE]
    ELSE IF IsLine(self, self.lines.lines[end].next)
    THEN RollEnd(self, self.lines.lines[end].next,
                 i + visual_lines_for_line(self, end, width), end_max, width)
    ELSE [at |-> end + 1, diff |-> end_max - i - 1, oob |-> FALSE]

\* Third loop: roll the start back at most end_diff further spaces.
RECURSIVE RollStartAgain(_, _, _, _, _)
RollStartAgain(self, start, i, end_diff, width) ==
    IF ~(i < end_diff) THEN [at |-> start, oob |-> FALSE]
    ELSE IF ~IsLine(self, start) THEN [at |-> start, oob |-> TRUE]
    ELSE IF self.lines.lines[start].prev # None
    THEN RollStartAgain(self, self.lines.lines[start].prev,
                        i + visual_lines_for_line(self, start, width), end_diff, width)
    ELSE [at |-> start, oob |-> FALSE]

\* bounds_of_range_around_line without the `n % 2` of end_max.
bounds_of_range_around_line_NoOddLine(self, line, n, width) ==
    LET space == n \div 2
        s1 == RollStart(self, line, 0, space, width)
        end_max == space + s1.diff
        e  == RollEnd(self, line, 0, end_max, width)
        s2 == RollStartAgain(self, s1.at, 0, e.diff, width)
    IN  [start |-> s2.at, end |-> e.at, oob |-> s1.oob \/ e.oob \/ s2.oob]

bounds_of_range_around_line(self, line, n, width) ==
    LET space == n \div 2
        s1 == RollStart(self, line, 0, space, width)
        end_max == space + (n % 2) + s1.diff
        e  == RollEnd(self, line, 0, end_max, width)
        s2 == RollStartAgain(self, s1.at, 0, e.diff, width)
    IN  [start |-> s2.at, end |-> e.at, oob |-> s1.oob \/ e.oob \/ s2.oob]

\* The emit loop of render_around_focus: the indices handed to render_line.
RECURSIVE Emitted(_, _, _)
Emitted(self, start, end) ==
    IF ~(start < end) \/ ~IsLine(self, start) THEN <<>>
    ELSE <<start>> \o Emitted(self, self.lines.lines[start].next, end)

FOLD_MARK == "*"
RESTRICTED_MARK == " [error opening dir]"
LINK_MARK == " -> "

\* suffix_for_node showing the fold mark on every line of the folded set and
\* on restricted directories.
suffix_for_node_DirLike(self, node) ==
    LET fse == self.tree.data[node]
    IN  CASE fse.ft = "File" -> <<>>
          [] fse.ft \in {"Dir", "RestrictedDir"} ->
                IF self.lines.inds[node] \in self.lines.folded \/ fse.ft = "RestrictedDir"
                THEN <<FOLD_MARK>> ELSE <<>>
          [] fse.ft = "LinkTo" -> <<LINK_MARK, fse.dest>>
          [] OTHER -> <<"<stdin>">>

\* The suffix written after the name of a node's line, as the pieces that
\* are concatenated.
suffix_for_node(self, node) ==
    LET fse == self.tree.data[node]
    IN  CASE fse.ft = "File" -> <<>>
          [] fse.ft = "Dir" ->
                IF self.lines.inds[node] \in self.lines.folded
                THEN <<FOLD_MARK>> ELSE <<>>
          [] fse.ft = "RestrictedDir" -> <<RESTRICTED_MARK>>
          [] fse.ft = "LinkTo" -> <<LINK_MARK, fse.dest>>
          [] OTHER -> <<"<stdin>">>

\* `suffix` holds the suffix render_line writes for each emitted line.
render_around_focus(self, n, width) ==
    LET y == self.lines.inds[self.focused]
        b == bounds_of_range_around_line(self, y, n, width)
        emitted == IF b.oob THEN <<>> ELSE Emitted(self, b.start, b.end)
    IN  [n |-> n, width |-> width, y |-> y, start |-> b.start, end |-> b.end,
         emitted |-> emitted,
         suffix |-> [k \in 1..Len(emitted) |->
                       suffix_for_node(self, self.lines.lines[emitted[k]].node)],
         oob |-> b.oob]

NoWindow == [n |-> 0, width |-> 0, y |-> None, start |-> None, end |-> None,
             emitted |-> <<>>, suffix |-> <<>>, oob |-> FALSE]

\* Tree::summary: the two counts, each with its singular or plural noun.
summary(self) ==
    <<self.n_dirs, IF self.n_dirs = 1 THEN "directory" ELSE "directories",
      self.n_files, IF self.n_files = 1 THEN "file" ELSE "files">>

(***************************************************************************)
(* The state machine: a Tree built from a walker stream, then any sequence *)
(* of the caller's commands.  hist records the last operation, the Tree    *)
(* before it (pre) and, for an unfold that directly follows a fold of the  *)
(* same line, the Tree before that fold (pre2).                            *)
(***************************************************************************)
Self == [tree |-> tree, root |-> root, focused |-> focused,
         focused_child |-> focused_child, lines |-> lines, status |-> status]

Mutable(self) == [focused |-> self.focused, focused_child |-> self.focused_child,
                  lines |-> self.lines]

NoPre == [focused |-> NoNode, focused_child |-> <<>>, lines |-> TreeLines_new]

\* Not started: no cost measured, no interactive loop, no loader thread,
\* no PutBack of its own.
NoMeasure == [l_ind |-> None, width |-> 0, value |-> 0]
NoTerm == [pc |-> "off", keys |-> 0, renders |-> 0, key |-> "none", summaries |-> 0]
NoLoading == [main |-> "off", thread |-> "off", chan |-> "empty", out |-> <<>>,
              waits |-> 0, send |-> "none"]
NoPutBack == [pb |-> [it |-> 0, slot |-> NoItem], op |-> "none", item |-> NoItem,
              pre |-> [it |-> 0, slot |-> NoItem], arg |-> NoItem, status |-> "ok"]

Idle ==
    /\ measured = NoMeasure
    /\ term = NoTerm
    /\ loading = NoLoading
    /\ pbuf = NoPutBack

InitTree(s, only_dirs) ==
    \E t \in {new_with_options(s, only_dirs)} :
        /\ walk = s
        /\ tree = t.tree
        /\ root = t.root
        /\ focused = t.focused
        /\ focused_child = t.focused_child
        /\ lines = t.lines
        /\ n_files = t.n_files
        /\ n_dirs = t.n_dirs
        /\ status = t.status
        /\ hist = [op |-> "new", pre |-> NoPre, pre2 |-> NoPre, last_up |-> <<>>]
        /\ window = NoWindow
        /\ printed = <<>>
        /\ options = [only_dirs |-> only_dirs]

InitFrom(s, only_dirs) == InitTree(s, only_dirs) /\ Idle

Init == \E s \in NavStreams : InitFrom(s, FALSE)

\* The caller runs operation `name`, which turns the Tree into `after`.
\* hist records the operation, the Tree before it, and last_up: for each
\* node the child that the latest focus_up into it came from.
Apply(name, after, pre2) ==
    /\ status = "ok"
    /\ focused' = after.focused
    /\ focused_child' = after.focused_child
    /\ lines' = after.lines
    /\ status' = after.status
    /\ tree' = after.tree
    /\ root' = after.root
    /\ hist' = [op |-> name, pre |-> Mutable(Self), pre2 |-> pre2,
                last_up |-> IF name = "focus_up" /\ after.focused # focused
                            THEN (after.focused :> focused) @@ hist.last_up
                            ELSE hist.last_up]
    /\ window' = NoWindow
    /\ UNCHANGED <<walk, n_files, n_dirs, printed>>
    /\ UNCHANGED others

FocusUp == Apply("focus_up", focus_up(Self), NoPre)

FocusDown == Apply("focus_down", focus_down(Self), NoPre)

FocusLeft == Apply("focus_left", focus_left(Self), NoPre)

FocusRight == Apply("focus_right", focus_right(Self), NoPre)

\* What toggle_focus_fold is about to do in the current state.
ToggleKind ==
    IF tree.data[focused].ft # "Dir" THEN "toggle_noop"
    ELSE IF focused_line_ind(Self) \in lines.folded THEN "unfold"
    ELSE "fold"

ToggleFold ==
    Apply(ToggleKind, toggle_focus_fold(Self),
          IF ToggleKind = "unfold" /\ hist.op = "fold" THEN hist.pre ELSE NoPre)

\* The render that follows a command (and the first one).  Rendering again
\* with no command in between, after a key that is no command, shows the
\* same Tree and yields one of the same windows.
Render ==
    /\ status = "ok"
    /\ window = NoWindow
    /\ \E n \in 1..MaxBudget, width \in Widths :
           window' = render_around_focus(Self, n, width)
    /\ status' = IF window'.oob THEN "panic" ELSE status
    /\ hist' = [op |-> "render", pre |-> Mutable(Self), pre2 |-> NoPre,
                last_up |-> hist.last_up]
    /\ UNCHANGED <<walk, tree, root, focused, focused_child, lines, n_files, n_dirs,
                   printed>>
    /\ UNCHANGED others

Next == FocusUp \/ FocusDown \/ FocusLeft \/ FocusRight \/ ToggleFold

Spec == Init /\ [][Next]_vars

\* The same commands with a render of the viewport between them.
InitRender == \E s \in RenderStreams : InitFrom(s, FALSE)

NextRender == FocusUp \/ FocusDown \/ FocusLeft \/ FocusRight \/ ToggleFold \/ Render

SpecRender == InitRender /\ [][NextRender]_vars

\* main with RenderMethod::JustSummary: the tree is built and its summary
\* printed, once.
JustSummary ==
    /\ status = "ok"
    /\ printed = <<>>
    /\ printed' = summary([n_dirs |-> n_dirs, n_files |-> n_files])
    /\ hist' = [op |-> "summary", pre |-> Mutable(Self), pre2 |-> NoPre,
                last_up |-> hist.last_up]
    /\ UNCHANGED <<walk, tree, root, focused, focused_child, lines, n_files, n_dirs,
                   status, window>>
    /\ UNCHANGED others

\* The summary of the Tree of a walk that may have errors in it.
InitBuild == \E s \in BuildStreams : InitFrom(s, FALSE)

NextBuild == JustSummary

SpecBuild == InitBuild /\ [][NextBuild]_vars

(***************************************************************************)
(* The build with FsOptions::only_dirs set or not, over streams of entries *)
(* of every kind.                                                          *)
(***************************************************************************)
OptionStreams ==
    StreamsOf(MaxOptionEntries, {"dir", "file", "link", "linkdir", "denied"})

InitOptions == \E s \in OptionStreams, od \in BOOLEAN : InitFrom(s, od)

NextOptions == JustSummary

SpecOptions == InitOptions /\ [][NextOptions]_vars

(***************************************************************************)
(* term::navigate.  term.pc is "start" before the first render, "loop"     *)
(* when the loop waits for a key, "done" after the loop and the summary,   *)
(* "panicked" when a handler or a render panicked.  keys, renders and      *)
(* summaries count the keys read, the calls of render_to_stdout that       *)
(* returned, and the summaries printed.  The key "eof" stands for          *)
(* keys.next() yielding None or an error, "other" for any key without an   *)
(* arm of its own.                                                         *)
(***************************************************************************)
QuitKeys == {"Esc", "q", "Ctrl-c"}

CommandKeys == {"Left", "h", "Right", "l", "Up", "k", "Down", "j", "f"}

Keys == CommandKeys \cup QuitKeys \cup {"other", "eof"}

\* The Tree after the arm of `match key` for a key that does not quit.
KeyArm(key) ==
    CASE key \in {"Left", "h"} -> focus_up(Self)
      [] key \in {"Right", "l"} -> focus_down(Self)
      [] key \in {"Up", "k"} -> focus_left(Self)
      [] key \in {"Down", "j"} -> focus_right(Self)
      [] key = "f" -> toggle_focus_fold(Self)
      [] OTHER -> Self

\* The operation that arm runs, as hist names it.
KeyOp(key) ==
    CASE key \in {"Left", "h"} -> "focus_up"
      [] key \in {"Right", "l"} -> "focus_down"
      [] key \in {"Up", "k"} -> "focus_left"
      [] key \in {"Down", "j"} -> "focus_right"
      [] key = "f" -> ToggleKind
      [] OTHER -> "none"

\* render_to_stdout: the terminal's size is read and the Tree rendered.
TermWindows(self) ==
    { render_around_focus(self, n, width) : n \in 1..MaxTermRows, width \in Widths }

\* The render before the loop.
FirstRender ==
    /\ term.pc = "start"
    /\ \E w \in TermWindows(Self) :
          /\ window' = w
          /\ status' = IF w.oob THEN "panic" ELSE status
          /\ term' = [term EXCEPT !.pc = IF w.oob THEN "panicked" ELSE "loop",
                                  !.renders = IF w.oob THEN @ ELSE @ + 1]
    /\ hist' = [hist EXCEPT !.op = "render", !.pre = Mutable(Self), !.pre2 = NoPre]
    /\ UNCHANGED <<walk, tree, root, focused, focused_child, lines, n_files, n_dirs,
                   printed, options, measured, loading, pbuf>>

\* One turn of `while let Some(Ok(key)) = keys.next()`: the arm of the key
\* and the render after it, or the end of the loop and what follows it.
KeyPress ==
    /\ term.pc = "loop"
    /\ term.keys < MaxKeys
    /\ \E key \in Keys :
          IF key \in QuitKeys \cup {"eof"}
          THEN /\ term' = [term EXCEPT !.pc = "done", !.key = key,
                                       !.keys = IF key = "eof" THEN @ ELSE @ + 1,
                                       !.summaries = @ + 1]
               /\ printed' = summary([n_dirs |-> n_dirs, n_files |-> n_files])
               /\ hist' = [hist EXCEPT !.op = "summary", !.pre = Mutable(Self),
                                       !.pre2 = NoPre]
               /\ UNCHANGED <<focused, focused_child, lines, status, window>>
          ELSE \E after \in {KeyArm(key)} :
               \E w \in (IF after.status = "ok" THEN TermWindows(after) ELSE {window}) :
                  /\ focused' = after.focused
                  /\ focused_child' = after.focused_child
                  /\ lines' = after.lines
                  /\ window' = w
                  /\ status' = IF after.status = "ok" /\ w.oob THEN "panic"
                                ELSE after.status
                  /\ term' = [term EXCEPT
                        !.pc = IF status' = "ok" THEN "loop" ELSE "panicked",
                        !.key = key,
                        !.keys = @ + 1,
                        !.renders = IF status' = "ok" THEN @ + 1 ELSE @]
                  /\ hist' = [op |-> KeyOp(key), pre |-> Mutable(Self), pre2 |-> NoPre,
                              last_up |-> IF KeyOp(key) = "focus_up"
                                             /\ after.focused # focused
                                          THEN (after.focused :> focused) @@ hist.last_up
                                          ELSE hist.last_up]
                  /\ UNCHANGED printed
    /\ UNCHANGED <<walk, tree, root, n_files, n_dirs, options, measured, loading, pbuf>>

TermStreams == StreamsOf(MaxTermEntries, {"dir", "file"}) \cup LoneRoots

InitTerm ==
    /\ \E s \in TermStreams : InitTree(s, FALSE)
    /\ term = [NoTerm EXCEPT !.pc = "start"]
    /\ measured = NoMeasure
    /\ loading = NoLoading
    /\ pbuf = NoPutBack

NextTerm == FirstRender \/ KeyPress

SpecTerm == InitTerm /\ [][NextTerm]_vars

(***************************************************************************)
(* main::build_tree_loading and the rest of main.  loading.main is         *)
(* "spawned" while Tree::new_with_options runs (the Tree variables hold    *)
(* what it is going to return), "built" when it has returned, "sent" after *)
(* sx.send(()), "exited" when the process has ended.  loading.thread is    *)
(* "wait300" in the first recv_timeout, "wait1000" in the loop,            *)
(* "signalled" after the break, "finished" when the closure has returned   *)
(* and dropped rx, "killed" when the process ended first.  chan is the     *)
(* channel: "empty", "signal" (the unit is queued) or "taken".  out is     *)
(* what the thread has written to stderr, waits the expired 1000 ms waits. *)
(* A build that exits or panics ends the process.                          *)
(***************************************************************************)
LoaderRuns == loading.thread \in {"wait300", "wait1000", "signalled"}

ProcessAlive == loading.main \in {"spawned", "built", "sent"}

LoadingFrame ==
    UNCHANGED <<walk, tree, root, focused, focused_child, lines, n_files, n_dirs,
                status, hist, window, printed, options, measured, term, pbuf>>

\* rx.recv_timeout(300 ms): the signal, or the timeout and `Building tree`.
LoaderFirstWait ==
    /\ ProcessAlive
    /\ loading.thread = "wait300"
    /\ loading' = IF loading.chan = "signal"
                  THEN [loading EXCEPT !.chan = "taken", !.thread = "finished"]
                  ELSE [loading EXCEPT !.out = Append(@, "Building tree"),
                                       !.thread = "wait1000"]
    /\ LoadingFrame

\* rx.recv_timeout(1000 ms) in the loop: the signal and the break, or the
\* timeout and a dot.
LoaderNextWait ==
    /\ ProcessAlive
    /\ loading.thread = "wait1000"
    /\ loading.chan = "signal" \/ loading.waits < MaxDots
    /\ loading' = IF loading.chan = "signal"
                  THEN [loading EXCEPT !.chan = "taken", !.thread = "signalled"]
                  ELSE [loading EXCEPT !.out = Append(@, "."), !.waits = @ + 1]
    /\ LoadingFrame

\* writeln!(stderr, "done!") and the end of the closure.
LoaderDone ==
    /\ ProcessAlive
    /\ loading.thread = "signalled"
    /\ loading' = [loading EXCEPT !.out = Append(@, "done!"), !.thread = "finished"]
    /\ LoadingFrame

\* Tree::new_with_options returns, or ends the process.
BuildReturns ==
    /\ loading.main = "spawned"
    /\ loading' = IF status = "ok"
                  THEN [loading EXCEPT !.main = "built"]
                  ELSE [loading EXCEPT !.main = "exited",
                                       !.thread = IF LoaderRuns THEN "killed" ELSE @]
    /\ LoadingFrame

\* sx.send(()).unwrap(): fails when the receiver has been dropped.
SendSignal ==
    /\ loading.main = "built"
    /\ loading' = IF loading.thread = "finished"
                  THEN [loading EXCEPT !.send = "failed", !.main = "exited"]
                  ELSE [loading EXCEPT !.send = "ok", !.chan = "signal", !.main = "sent"]
    /\ LoadingFrame

\* main goes on with the Tree and returns: the process ends, and with it a
\* loader thread that is still running (the thread is never joined).
MainReturns ==
    /\ loading.main = "sent"
    /\ loading' = [loading EXCEPT !.main = "exited",
                                  !.thread = IF LoaderRuns THEN "killed" ELSE @]
    /\ LoadingFrame

LoadingStreams ==
    StreamsOf(MaxLoadingEntries, {"dir", "file"})
    \cup RootlessWalks
    \cup {<<DirEnt("dir", 0, 1), WalkErr("other", 0)>>}

InitLoading ==
    /\ \E s \in LoadingStreams : InitTree(s, FALSE)
    /\ loading = [NoLoading EXCEPT !.main = "spawned", !.thread = "wait300"]
    /\ measured = NoMeasure
    /\ term = NoTerm
    /\ pbuf = NoPutBack

NextLoading ==
    \/ LoaderFirstWait
    \/ LoaderNextWait
    \/ LoaderDone
    \/ BuildReturns
    \/ SendSignal
    \/ MainReturns

SpecLoading == InitLoading /\ [][NextLoading]_vars

\* Both threads are scheduled again and again while the process lives.
SpecLoadingFair ==
    /\ SpecLoading
    /\ WF_vars(LoaderFirstWait \/ LoaderNextWait \/ LoaderDone)
    /\ WF_vars(BuildReturns \/ SendSignal \/ MainReturns)

(***************************************************************************)
(* util::PutBack driven by an arbitrary caller: pbuf.pb is a PutBack over  *)
(* the walker stream, and each step is one call of next() or put_back()    *)
(* on it.  pbuf records the call: the iterator before it, the item         *)
(* returned by next(), the argument of put_back() and whether the call     *)
(* panicked.  The tree of the same stream is built alongside.              *)
(***************************************************************************)
PbNext ==
    /\ pbuf.op # "none"
    /\ pbuf.status = "ok"
    /\ \E r \in {PutBack_next(walk, pbuf.pb)} :
           pbuf' = [pb |-> r.pb, op |-> "next", item |-> r.item,
                    pre |-> pbuf.pb, arg |-> NoItem, status |-> "ok"]
    /\ UNCHANGED <<walk, tree, root, focused, focused_child, lines, n_files, n_dirs,
                   status, hist, window, printed, options, measured, term, loading>>

PbPutBack ==
    /\ pbuf.op # "none"
    /\ pbuf.status = "ok"
    /\ \E i \in 1..Len(walk) :
           \E r \in {put_back(pbuf.pb, walk[i])} :
               pbuf' = [pb |-> r.pb, op |-> "put_back", item |-> NoItem,
                        pre |-> pbuf.pb, arg |-> walk[i], status |-> r.status]
    /\ UNCHANGED <<walk, tree, root, focused, focused_child, lines, n_files, n_dirs,
                   status, hist, window, printed, options, measured, term, loading>>

PutBackStreams ==
    WalksOf(MaxPutBackEntries)
    \cup StreamsOf(MaxPutBackEntries, {"dir", "file"})
    \cup RootlessWalks

InitPutBack ==
    \E s \in PutBackStreams, od \in BOOLEAN :
        /\ InitTree(s, od)
        /\ measured = NoMeasure
        /\ term = NoTerm
        /\ loading = NoLoading
        /\ pbuf = [NoPutBack EXCEPT !.pb = PutBack_new, !.op = "new"]

NextPutBack == PbNext \/ PbPutBack

SpecPutBack == InitPutBack /\ [][NextPutBack]_vars

(***************************************************************************)
(* visual_lines_for_line on its own: the lines of trees whose root is      *)
(* named by a path of any length up to MaxNameLen, every width up to       *)
(* MaxWidth.                                                               *)
(***************************************************************************)
CostStreams ==
    { [s EXCEPT ![1].nlen = k] :
        s \in StreamsOf(MaxCostEntries, {"dir", "file"}), k \in 1..MaxNameLen }

VisualLines ==
    /\ status = "ok"
    /\ \E l_ind \in DOMAIN lines.lines, width \in 1..MaxWidth :
           measured' = [l_ind |-> l_ind, width |-> width,
                        value |-> visual_lines_for_line(Self, l_ind, width)]
    /\ UNCHANGED <<walk, tree, root, focused, focused_child, lines, n_files, n_dirs,
                   status, hist, window, printed, options, term, loading, pbuf>>

InitCost == \E s \in CostStreams : InitFrom(s, FALSE)

NextCost == VisualLines

SpecCost == InitCost /\ [][NextCost]_vars

(***************************************************************************)
(* Vocabulary of the properties, defined from the tree shape alone.        *)
(***************************************************************************)
RECURSIVE Ancestors(_, _)
Ancestors(t, n) ==
    IF t.parent[n] = NoNode THEN {} ELSE {t.parent[n]} \cup Ancestors(t, t.parent[n])

Descendants(t, n) == {m \in Nodes(t) : n \in Ancestors(t, m)}

\* Depth-first preorder of the subtree of n, children in sibling order.
RECURSIVE Preorder(_, _)
RECURSIVE PreorderOfAll(_, _)
Preorder(t, n) == <<n>> \o PreorderOfAll(t, t.kids[n])
PreorderOfAll(t, ks) ==
    IF ks = <<>> THEN <<>> ELSE Preorder(t, Head(ks)) \o PreorderOfAll(t, Tail(ks))

RECURSIVE SelectNodes(_, _)
SelectNodes(seq, keep) ==
    IF seq = <<>> THEN <<>>
    ELSE (IF Head(seq) \in keep THEN <<Head(seq)>> ELSE <<>>) \o SelectNodes(Tail(seq), keep)

\* Nodes none of whose ancestors has its line in the folded set.
Unhidden == {n \in Nodes(tree) :
                \A a \in Ancestors(tree, n) : lines.inds[a] \notin lines.folded}

\* The nodes of the lines met from line i by following `next`.
RECURSIVE NextChain(_)
NextChain(i) ==
    IF i \notin DOMAIN lines.lines THEN <<>>
    ELSE <<lines.lines[i].node>> \o NextChain(lines.lines[i].next)

\* The linkage produced by the initial draw.
InitialLinkage(tl) ==
    /\ tl.folded = {}
    /\ \A i \in DOMAIN tl.lines :
          /\ tl.lines[i].prev = (IF i = 0 THEN None ELSE i - 1)
          /\ tl.lines[i].next = i + 1

\* The first line after the whole descendant range of line i.
AfterSubtree(i) == i + 1 + Cardinality(Descendants(tree, lines.lines[i].node))

Moved == focused # hist.pre.focused

\* An unfold of the line whose fold was the operation just before it.
FoldThenUnfold == hist.op = "unfold" /\ hist.pre2 # NoPre

(***************************************************************************)
(* C1: the lines met from line 1 by following `next` are exactly the       *)
(* depth-first preorder of the non-root nodes that have no folded          *)
(* ancestor, after any sequence of focus and fold operations.              *)
(***************************************************************************)
C1_VisibleIsUnfoldedPreorder ==
    NextChain(1) = SelectNodes(Preorder(tree, root), Unhidden \ {root})

\* A directory folded inside a directory that was folded and unfolded again.
C1_Witness ==
    /\ FoldThenUnfold
    /\ \E n \in Descendants(tree, focused) :
          /\ lines.inds[n] \in lines.folded
          /\ Descendants(tree, n) # {}

(***************************************************************************)
(* C2: folding the focused, unfolded directory and unfolding it at once    *)
(* restores prev and next of every line and the folded set.                *)
(***************************************************************************)
C2_RoundTrip == FoldThenUnfold => lines = hist.pre2.lines

(***************************************************************************)
(* C3: from the linkage of the initial draw, toggling the fold of the      *)
(* focused directory twice yields the linkage of the initial draw again.   *)
(***************************************************************************)
C3_ToggleTwiceFromFresh ==
    (FoldThenUnfold /\ InitialLinkage(hist.pre2.lines)) => InitialLinkage(lines)

\* Toggled twice on a directory that has a subdirectory with children.
C3_Witness ==
    /\ FoldThenUnfold
    /\ InitialLinkage(hist.pre2.lines)
    /\ \E n \in Descendants(tree, focused) : Descendants(tree, n) # {}
    /\ AfterSubtree(lines.inds[focused]) < lines.count

(***************************************************************************)
(* C4: a folded line's next is the first line after its descendant range,  *)
(* an unfolded line's next is the line after it, and only Directory lines  *)
(* are folded.                                                             *)
(***************************************************************************)
C4_FoldedIffSkips ==
    \A i \in DOMAIN lines.lines :
        /\ i \in lines.folded => lines.lines[i].next = AfterSubtree(i)
        /\ i \notin lines.folded => lines.lines[i].next = i + 1
        /\ i \in lines.folded => tree.data[lines.lines[i].node].ft = "Dir"

\* A folded last child: the line after its range belongs to an ancestor's
\* next sibling.
C4_Witness ==
    \E i \in lines.folded :
        LET n == lines.lines[i].node
        IN  /\ Descendants(tree, n) # {}
            /\ next_sibling(tree, n) = NoNode
            /\ AfterSubtree(i) < lines.count

(***************************************************************************)
(* C5: no focus or fold operation panics, in any state and for any tree    *)
(* shape.                                                                  *)
(***************************************************************************)
C5_NavigationTotal == status = "ok"

C7_FocusUp ==
    hist.op = "focus_up" =>
        LET f == hist.pre.focused
            p == tree.parent[f]
        IN  IF p = NoNode \/ p = root
            THEN focused = f /\ focused_child = hist.pre.focused_child
            ELSE /\ focused = p
                 /\ DOMAIN focused_child = DOMAIN hist.pre.focused_child \cup {p}
                 /\ focused_child[p] = f
                 /\ \A q \in DOMAIN hist.pre.focused_child \ {p} :
                       focused_child[q] = hist.pre.focused_child[q]

\* focus_up replaced an older remembered child of the parent.
C7_Witness ==
    /\ hist.op = "focus_up"
    /\ Moved
    /\ focused \in DOMAIN hist.pre.focused_child
    /\ hist.pre.focused_child[focused] # hist.pre.focused

(***************************************************************************)
(* C8: focus_down moves to the remembered last-descended child when one is *)
(* recorded; otherwise to the first child, except that the focus stays     *)
(* when the focused line is folded or the node has no children.            *)
(***************************************************************************)
C8_FocusDown ==
    hist.op = "focus_down" =>
        LET f == hist.pre.focused
        IN  /\ focused_child = hist.pre.focused_child
            /\ focused =
                 IF f \in DOMAIN hist.pre.focused_child THEN hist.pre.focused_child[f]
                 ELSE IF tree.kids[f] = <<>> THEN f
                 ELSE IF hist.pre.lines.inds[f] \in hist.pre.lines.folded THEN f
                 ELSE tree.kids[f][1]

\* focus_down went to a remembered child that is not the first child.
C8_Witness ==
    /\ hist.op = "focus_down"
    /\ Moved
    /\ focused # tree.kids[hist.pre.focused][1]

(***************************************************************************)
(* C9: focus_left (focus_right) moves to the previous (next) sibling and   *)
(* stays when there is none; the focus keeps its parent.                   *)
(***************************************************************************)
C9_FocusLeftRight ==
    hist.op \in {"focus_left", "focus_right"} =>
        LET f  == hist.pre.focused
            p  == tree.parent[f]
            step == IF hist.op = "focus_left" THEN -1 ELSE 1
        IN  /\ tree.parent[focused] = p
            /\ IF p = NoNode THEN focused = f
               ELSE LET i == CHOOSE k \in 1..Len(tree.kids[p]) : tree.kids[p][k] = f
                    IN  focused = IF i + step \in 1..Len(tree.kids[p])
                                  THEN tree.kids[p][i + step] ELSE f

\* focus_left moved between two siblings below the top level.
C9_Witness ==
    /\ hist.op = "focus_left"
    /\ Moved
    /\ tree.parent[focused] # root

(***************************************************************************)
(* C10: for every focus line y, budget n >= 1 and width >= 1 the window    *)
(* (start, end) satisfies start <= y < end <= line count, and no index     *)
(* outside the backing array is used.                                      *)
(***************************************************************************)
C10_WindowContainsFocus ==
    window # NoWindow =>
        /\ ~window.oob
        /\ window.start <= window.y
        /\ window.y < window.end
        /\ window.end <= lines.count

\* A window around the last line of the array, with wrapping lines.
C10_Witness ==
    /\ window # NoWindow
    /\ window.y = lines.count - 1
    /\ window.y > 0
    /\ window.width = 8
    /\ window.start < window.y

(***************************************************************************)
(* Vocabulary of the window properties.                                    *)
(***************************************************************************)
\* The indices of the lines met from line i by following `next`.
RECURSIVE NextIdx(_)
NextIdx(i) ==
    IF i \notin DOMAIN lines.lines THEN <<>>
    ELSE <<i>> \o NextIdx(lines.lines[i].next)

\* The indices of the lines met from line i by following `prev`.
RECURSIVE PrevIdx(_)
PrevIdx(i) ==
    IF i \notin DOMAIN lines.lines THEN <<>>
    ELSE <<i>> \o PrevIdx(lines.lines[i].prev)

\* The visible lines: those met from the root line by following `next`.
Visible == NextIdx(0)

VisibleSet == {Visible[k] : k \in 1..Len(Visible)}

\* Position of the visible line i in the visible list.
VisiblePos(i) == CHOOSE k \in 1..Len(Visible) : Visible[k] = i

\* Visual lines taken by line i at the width of the last render.
Cost(i) == visual_lines_for_line(Self, i, window.width)

RECURSIVE CostOf(_)
CostOf(S) ==
    IF S = {} THEN 0
    ELSE LET i == CHOOSE x \in S : TRUE IN Cost(i) + CostOf(S \ {i})

\* The visible lines inside the window of the last render.
InWindow == {i \in VisibleSet : window.start <= i /\ i < window.end}

NoWrap == \A i \in DOMAIN lines.lines : Cost(i) = 1

Rendered == window # NoWindow

\* Emitted lines before and after the focus line.
EmittedAbove == Cardinality({k \in 1..Len(window.emitted) : window.emitted[k] < window.y})
EmittedBelow == Cardinality({k \in 1..Len(window.emitted) : window.emitted[k] > window.y})

Min(a, b) == IF a < b THEN a ELSE b

(***************************************************************************)
(* C11: for a budget n that is at most the total cost of the visible lines *)
(* (and at least the cost of the focus line alone), the visible lines      *)
(* inside the window cost at most n visual lines in total, and exactly n   *)
(* when the lines above the focus cost at least n/2 and the focus line and *)
(* the lines below it at least n/2 + n mod 2.                              *)
(***************************************************************************)
C11_WindowWithinBudget ==
    (/\ Rendered
     /\ window.y \in VisibleSet
     /\ window.n <= CostOf(VisibleSet)
     /\ Cost(window.y) <= window.n) =>
        /\ CostOf(InWindow) <= window.n
        /\ (/\ CostOf({i \in VisibleSet : i < window.y}) >= window.n \div 2
            /\ CostOf({i \in VisibleSet : i >= window.y})
                  >= (window.n \div 2) + (window.n % 2))
           => CostOf(InWindow) = window.n

(***************************************************************************)
(* C12: the lines emitted by render_around_focus are visible lines, and    *)
(* they are consecutive in the visible list.                               *)
(***************************************************************************)
C12_EmittedAreVisible ==
    Rendered =>
        /\ \A k \in 1..Len(window.emitted) : window.emitted[k] \in VisibleSet
        /\ \A k \in 1..(Len(window.emitted) - 1) :
              /\ window.emitted[k] \in VisibleSet
              /\ VisiblePos(window.emitted[k]) < Len(Visible)
              /\ window.emitted[k + 1] = Visible[VisiblePos(window.emitted[k]) + 1]

(***************************************************************************)
(* C13: when no line wraps, render_around_focus emits exactly min(n, V)    *)
(* lines, V being the number of visible lines, for every focus position.   *)
(***************************************************************************)
C13_FillsViewport ==
    (Rendered /\ NoWrap) => Len(window.emitted) = Min(window.n, Len(Visible))

RECURSIVE OkItems(_)
OkItems(s) ==
    IF s = <<>> THEN <<>>
    ELSE (IF Head(s).ok THEN <<Head(s)>> ELSE <<>>) \o OkItems(Tail(s))

\* Position in s of its k-th Ok item.
OkPos(s, k) ==
    CHOOSE i \in 1..Len(s) :
        s[i].ok /\ Cardinality({j \in 1..i : s[j].ok}) = k

\* The error items between the k-th Ok item of s and the next Ok item.
ErrorsBehind(s, k) ==
    { s[j] : j \in {i \in (OkPos(s, k) + 1)..Len(s) :
                      \A m \in (OkPos(s, k) + 1)..i : ~s[m].ok} }

\* The stream starts with an Ok root.
HasRoot(s) == s # <<>> /\ s[1].ok

\* The shape of the tree fs_to_tree builds from the Ok items of s alone.
CleanBuild(s) == fs_to_tree(OkItems(s), FALSE)

Built == hist.op = "new" /\ status = "ok"

(***************************************************************************)
(* C15: the tree has one node per entry of the stream, in stream order;    *)
(* the parent of a non-root node is the most recent earlier entry whose    *)
(* depth is one less, and children are ordered as in the stream.           *)
(***************************************************************************)
C15_TreeFollowsDepths ==
    LET es == OkItems(walk)
    IN  /\ Len(tree.parent) = Len(es)
        /\ \A k \in 1..Len(es) : tree.data[k].de = es[k]
        /\ tree.parent[root] = NoNode
        /\ \A k \in 2..Len(es) :
              LET p == tree.parent[k]
              IN  /\ p \in 1..(k - 1)
                  /\ es[p].depth = es[k].depth - 1
                  /\ \A j \in (p + 1)..(k - 1) : es[j].depth # es[k].depth - 1
        /\ \A n \in Nodes(tree) :
              /\ {tree.kids[n][i] : i \in 1..Len(tree.kids[n])}
                    = {k \in Nodes(tree) : tree.parent[k] = n}
              /\ \A i, j \in 1..Len(tree.kids[n]) :
                    i < j => tree.kids[n][i] < tree.kids[n][j]

\* An entry two levels above the entry before it, with an earlier sibling.
C15_Witness ==
    /\ Built
    /\ \E k \in 3..Len(tree.parent) :
          /\ tree.data[k].de.depth + 2 <= tree.data[k - 1].de.depth
          /\ previous_sibling(tree, k) # NoNode

(***************************************************************************)
(* C16: when the stream starts with an Ok root, error items later in the   *)
(* stream never make construction panic or exit, and the tree has the      *)
(* shape of the tree built from the stream without its error items.        *)
(***************************************************************************)
C16_ErrorsSkipped ==
    (hist.op = "new" /\ HasRoot(walk)) =>
        /\ status = "ok"
        /\ tree.parent = CleanBuild(walk).tree.parent
        /\ tree.kids = CleanBuild(walk).tree.kids

(***************************************************************************)
(* C17: an entry is RestrictedDir exactly when the errors met by its       *)
(* lookahead include a permission-denied error for its own path; such an   *)
(* entry has no children, construction completes, and the tree has the     *)
(* shape it would have without the error items.                            *)
(***************************************************************************)
C17_RestrictedDir ==
    \A k \in 2..Len(tree.parent) :
        LET e == OkItems(walk)[k]
            denied == WalkErr("denied", e.path) \in ErrorsBehind(walk, k)
        IN  /\ tree.data[k].ft = IF denied THEN "RestrictedDir" ELSE de_to_fsentry(e).ft
            /\ denied =>
                  /\ tree.kids[k] = <<>>
                  /\ status = "ok"
                  /\ tree.parent = CleanBuild(walk).tree.parent
                  /\ tree.kids = CleanBuild(walk).tree.kids

\* A restricted directory with a later sibling, whose lookahead also met a
\* permission-denied error for another path.
C17_Witness ==
    /\ Built
    /\ \E k \in 2..Len(tree.parent) :
          /\ tree.data[k].ft = "RestrictedDir"
          /\ next_sibling(tree, k) # NoNode
          /\ WalkErr("denied", 0) \in ErrorsBehind(walk, k)

(***************************************************************************)
(* C18: on an empty stream construction exits the process; it does not     *)
(* panic.                                                                  *)
(***************************************************************************)
C18_EmptyWalkExits == walk = <<>> => status = "exit"

(***************************************************************************)
(* C19: n_dirs is the number of non-root nodes whose entry is or points to *)
(* a directory (restricted directories included), n_files the number of    *)
(* the other non-root nodes; the root is counted in neither.               *)
(***************************************************************************)
C19_Counts ==
    status = "ok" =>
        LET nonroot == Nodes(tree) \ {root}
            dirs == {k \in nonroot : tree.data[k].de.kind \in {"dir", "linkdir"}}
        IN  /\ n_dirs = Cardinality(dirs)
            /\ n_files = Cardinality(nonroot \ dirs)
            /\ n_dirs + n_files = Len(tree.parent) - 1
            /\ printed # <<>> => printed[1] = n_dirs /\ printed[3] = n_files

\* The summary of a tree with a restricted directory and a symlink to a
\* directory.
C19_Witness ==
    /\ hist.op = "summary"
    /\ \E k \in Nodes(tree) : tree.data[k].ft = "RestrictedDir"
    /\ \E k \in Nodes(tree) : tree.data[k].de.kind = "linkdir"
    /\ n_dirs = 2

(***************************************************************************)
(* C20: there is one line per node; line 0 is the root line and the lines  *)
(* are in depth-first preorder, children in sibling order; inds is the     *)
(* inverse of the lines' node field.                                       *)
(***************************************************************************)
C20_DrawIsPreorder ==
    /\ lines.count = Len(tree.parent)
    /\ DOMAIN lines.lines = 0..(lines.count - 1)
    /\ lines.lines[0].node = root
    /\ \A i \in 1..lines.count : lines.lines[i - 1].node = Preorder(tree, root)[i]
    /\ DOMAIN lines.inds = Nodes(tree)
    /\ \A n \in Nodes(tree) : lines.lines[lines.inds[n]].node = n
    /\ \A i \in DOMAIN lines.lines : lines.inds[lines.lines[i].node] = i

\* A freshly drawn tree in which a subtree of two levels is followed by a
\* node of the top level.
C20_Witness ==
    /\ hist.op = "new"
    /\ \E n \in Nodes(tree) :
          /\ tree.parent[n] = root
          /\ \E m \in Descendants(tree, n) : Descendants(tree, m) # {}
          /\ next_sibling(tree, n) # NoNode
          /\ lines.inds[next_sibling(tree, n)] = lines.count - 1

(***************************************************************************)
(* Vocabulary of the prefix properties.                                    *)
(***************************************************************************)
Depth(n) == Cardinality(Ancestors(tree, n))

\* The ancestor of n at depth i (n itself at its own depth).
AncestorAt(n, i) == CHOOSE a \in Ancestors(tree, n) \cup {n} : Depth(a) = i

IsLastChild(n) == last_child(tree, tree.parent[n]) = n

PrefixOf(n) == lines.lines[lines.inds[n]].prefix

BranchOf(n) == IF IsLastChild(n) THEN END_BRANCH ELSE MID_BRANCH

IndentOf(n) == IF IsLastChild(n) THEN BLANK_INDENT ELSE BAR_INDENT

Fresh == hist.op = "new" /\ status = "ok"

(***************************************************************************)
(* C21: right after construction line i has prev = i - 1 (none for line 0) *)
(* and next = i + 1, so the next of the last line is the line count, and   *)
(* the folded set is empty.                                                *)
(***************************************************************************)
C21_FreshLinkage ==
    Fresh =>
        /\ InitialLinkage(lines)
        /\ DOMAIN lines.lines = 0..(lines.count - 1)
        /\ lines.lines[lines.count - 1].next = lines.count
        /\ lines.lines[lines.count - 1].next \notin DOMAIN lines.lines

\* A fresh projection of at least four lines.
C21_Witness == Fresh /\ lines.count >= 4 /\ lines.lines[3].prev = 2

(***************************************************************************)
(* C22: the prefix of a non-root node at depth d has d pieces: d - 1       *)
(* indent pieces, the i-th being BlankIndent iff the ancestor at depth i   *)
(* is a last child (else BarIndent), then one branch piece, EndBranch iff  *)
(* the node is a last child (else MidBranch).  The root's prefix is empty. *)
(***************************************************************************)
C22_PrefixShape ==
    Fresh =>
        \A n \in Nodes(tree) :
            IF n = root THEN PrefixOf(n) = <<>>
            ELSE /\ Len(PrefixOf(n)) = Depth(n)
                 /\ PrefixOf(n)[Depth(n)] = BranchOf(n)
                 /\ \A i \in 1..(Depth(n) - 1) :
                       PrefixOf(n)[i] = IndentOf(AncestorAt(n, i))

\* A node at depth three below a last child that is below a child with a
\* later sibling.
C22_Witness ==
    /\ Fresh
    /\ \E n \in Nodes(tree) :
          /\ Depth(n) = 3
          /\ IsLastChild(AncestorAt(n, 2))
          /\ ~IsLastChild(AncestorAt(n, 1))

(***************************************************************************)
(* C23: the prefix of a non-root node is the prefix of its parent with one *)
(* piece appended, EndBranch if the node is a last child, else MidBranch.  *)
(***************************************************************************)
C23_PrefixExtendsParent ==
    Fresh =>
        \A n \in Nodes(tree) \ {root} :
            PrefixOf(n) = Append(PrefixOf(tree.parent[n]), BranchOf(n))

\* A prefix whose final branch piece is replaced by the indent piece drawn
\* below it.
BranchToIndent(prefix) ==
    IF prefix = <<>> THEN <<>>
    ELSE Append(SubSeq(prefix, 1, Len(prefix) - 1),
                IF prefix[Len(prefix)] = END_BRANCH THEN BLANK_INDENT ELSE BAR_INDENT)

(***************************************************************************)
(* C23, amended: the prefix of a non-root node is the prefix of its parent *)
(* with the parent's branch piece turned into the matching indent piece    *)
(* (EndBranch into BlankIndent, MidBranch into BarIndent) and one branch   *)
(* piece appended, EndBranch if the node is a last child, else MidBranch;  *)
(* it has one piece more than the parent's prefix.                         *)
(***************************************************************************)
C23_PrefixIndentsParent ==
    Fresh =>
        \A n \in Nodes(tree) \ {root} :
            /\ PrefixOf(n) = Append(BranchToIndent(PrefixOf(tree.parent[n])), BranchOf(n))
            /\ Len(PrefixOf(n)) = Len(PrefixOf(tree.parent[n])) + 1

\* Below a parent that has a later sibling, a last child and a child with
\* a later sibling.
C23_Witness ==
    /\ Fresh
    /\ \E n \in Nodes(tree) \ {root} :
          tree.parent[n] # root /\ IsLastChild(n) /\ ~IsLastChild(tree.parent[n])
    /\ \E n \in Nodes(tree) \ {root} :
          tree.parent[n] # root /\ ~IsLastChild(n) /\ ~IsLastChild(tree.parent[n])

(***************************************************************************)
(* C24: no navigation or fold operation changes the tree, the length or    *)
(* order of the backing array, the node or prefix of a line, the map from  *)
(* nodes to indices, the file and directory counts or the summary.         *)
(***************************************************************************)
Frame ==
    /\ tree' = tree
    /\ root' = root
    /\ lines'.count = lines.count
    /\ lines'.inds = lines.inds
    /\ DOMAIN lines'.lines = DOMAIN lines.lines
    /\ \A i \in DOMAIN lines.lines :
          /\ lines'.lines[i].node = lines.lines[i].node
          /\ lines'.lines[i].prefix = lines.lines[i].prefix
    /\ n_files' = n_files
    /\ n_dirs' = n_dirs
    /\ summary([n_dirs |-> n_dirs', n_files |-> n_files'])
          = summary([n_dirs |-> n_dirs, n_files |-> n_files])

C24_OperationsKeepStructure == [][Frame]_vars

\* After an unfold, with a remembered child and another line still folded.
C24_Witness ==
    /\ hist.op = "unfold"
    /\ focused_child # <<>>
    /\ lines.folded # {}
    /\ lines.count >= 4

(***************************************************************************)
(* C25: toggle_focus_fold on a focused node whose kind is not Directory    *)
(* changes no prev or next, nor the folded set, the focus or the           *)
(* last-descended-child map, and raises no error.                          *)
(***************************************************************************)
C25_ToggleNonDirectory ==
    (/\ hist.op \in {"toggle_noop", "fold", "unfold"}
     /\ tree.data[hist.pre.focused].ft # "Dir") =>
        /\ lines = hist.pre.lines
        /\ focused = hist.pre.focused
        /\ focused_child = hist.pre.focused_child
        /\ status = "ok"

\* A toggle on a restricted directory while another directory is folded.
C25_Witness ==
    /\ hist.op = "toggle_noop"
    /\ tree.data[focused].ft = "RestrictedDir"
    /\ lines.folded # {}

(***************************************************************************)
(* C28: the visible lines form a consistent doubly linked list: for every  *)
(* visible line L whose next is a real line that line's prev is L, and for *)
(* every visible line L but line 0 the next of L's prev is L.              *)
(***************************************************************************)
C28_DoublyLinked ==
    \A k \in 1..Len(Visible) :
        LET L == Visible[k]
        IN  /\ lines.lines[L].next \in DOMAIN lines.lines
                  => lines.lines[lines.lines[L].next].prev = L
            /\ L # 0 => /\ lines.lines[L].prev \in DOMAIN lines.lines
                        /\ lines.lines[lines.lines[L].prev].next = L

(***************************************************************************)
(* C29: the line of the focused node is visible: no ancestor of the        *)
(* focused node is folded.                                                 *)
(***************************************************************************)
C29_FocusVisible ==
    /\ lines.inds[focused] \in VisibleSet
    /\ \A a \in Ancestors(tree, focused) : lines.inds[a] \notin lines.folded

(***************************************************************************)
(* C30: a fold of the focused line L changes only the next of L, the prev  *)
(* of the line M after L's subtree (when M is a real line) and the folded  *)
(* status of L; an unfold of L changes only the next of L, the prev of the *)
(* line that L's next pointed at (when it is a real line) and the folded   *)
(* status of L.                                                            *)
(***************************************************************************)
C30_ToggleTouchesTwoLinks ==
    (hist.op \in {"fold", "unfold"} /\ status = "ok") =>
        LET pre == hist.pre.lines
            L   == pre.inds[hist.pre.focused]
            M   == IF hist.op = "fold" THEN AfterSubtree(L) ELSE pre.lines[L].next
        IN  /\ \A i \in DOMAIN lines.lines \ {L} : lines.lines[i].next = pre.lines[i].next
            /\ \A i \in DOMAIN lines.lines \ {M} : lines.lines[i].prev = pre.lines[i].prev
            /\ lines.lines[L].prev = pre.lines[L].prev
            /\ lines.folded \ {L} = pre.folded \ {L}

\* An unfold of a directory that holds a folded directory with children
\* and is followed by a real line.
C30_Witness ==
    /\ hist.op = "unfold"
    /\ hist.pre.lines.lines[lines.inds[focused]].next \in DOMAIN lines.lines
    /\ \E n \in Descendants(tree, focused) :
          /\ lines.inds[n] \in lines.folded
          /\ lines.lines[lines.inds[n]].next > lines.inds[n] + 1

(***************************************************************************)
(* C26: construction depends on nothing but the walker stream: whether it  *)
(* completes, and then the tree (shape, entries, kinds, names), the line   *)
(* sequence (nodes, prefixes, prev and next, empty folded set), the        *)
(* initial focus and the file and directory counts are each the one value  *)
(* fixed by the items of the stream and their order.                       *)
(***************************************************************************)
StatusOf(s) ==
    IF s = <<>> THEN "panic"
    ELSE IF ~s[1].ok THEN "exit"
    ELSE IF Len(s) >= 2 /\ ~s[2].ok THEN "panic"
    ELSE "ok"

C26_BuildDeterminedByWalk ==
    hist.op = "new" =>
        /\ status = StatusOf(walk)
        /\ status = "ok" =>
              LET es == OkItems(walk)
              IN  /\ root = 1
                  /\ C15_TreeFollowsDepths
                  /\ tree.data[root].ft = "Dir"
                  /\ C17_RestrictedDir
                  /\ \A k \in Nodes(tree) :
                        /\ tree.data[k].name = es[k].nlen
                        /\ tree.data[k].dest = IF tree.data[k].ft = "LinkTo"
                                               THEN read_link(es[k]) ELSE NoDest
                  /\ C19_Counts
                  /\ C20_DrawIsPreorder
                  /\ InitialLinkage(lines)
                  /\ C22_PrefixShape
                  /\ focused = (IF Len(es) >= 2 THEN 2 ELSE root)
                  /\ focused_child = <<>>

\* A completed build from a stream with an error item between entries, a
\* restricted directory and a symlink.
C26_Witness ==
    /\ Built
    /\ NumErr(walk) >= 1
    /\ \E k \in Nodes(tree) : tree.data[k].ft = "RestrictedDir"
    /\ \E k \in Nodes(tree) : tree.data[k].ft = "LinkTo"

C31_NavigationAndFoldFrames ==
    /\ hist.op \in {"focus_up", "focus_down", "focus_left", "focus_right"}
          => lines = hist.pre.lines
    /\ hist.op \in {"focus_down", "focus_left", "focus_right"}
          => focused_child = hist.pre.focused_child
    /\ hist.op \in {"fold", "unfold", "toggle_noop"}
          => /\ focused = hist.pre.focused
             /\ focused_child = hist.pre.focused_child

\* A fold of a directory whose remembered child is recorded.
C31_Witness ==
    /\ hist.op = "fold"
    /\ lines.inds[focused] \in lines.folded
    /\ focused \in DOMAIN focused_child

(***************************************************************************)
(* C32: when the latest focus_up that moved the focus into p came from the *)
(* child c, a focus_down with the focus on p moves the focus to c,         *)
(* whatever operations ran in between; and focus_down right after a        *)
(* focus_up that moved returns to the focus it left.                       *)
(***************************************************************************)
C32_DescentMemory ==
    /\ (hist.op = "focus_down" /\ hist.pre.focused \in DOMAIN hist.last_up)
          => focused = hist.last_up[hist.pre.focused]
    /\ (hist.op = "focus_up" /\ Moved)
          => focus_down(Self).focused = hist.pre.focused

\* focus_down returned to a remembered child that is not the first child,
\* below a directory that was folded after the focus_up.
C32_Witness ==
    /\ hist.op = "focus_down"
    /\ hist.pre.focused \in DOMAIN hist.last_up
    /\ focused # tree.kids[hist.pre.focused][1]
    /\ lines.inds[hist.pre.focused] \in lines.folded

(***************************************************************************)
(* C33: every entry (p -> c) of the last-descended-child map has c a child *)
(* of p and p not the root; so focus_down moves to a child of the focus or *)
(* does not move, and focus_up right after a focus_down that moved returns *)
(* to the focus it left.                                                   *)
(***************************************************************************)
C33_MemoryHoldsChildren ==
    /\ \A p \in DOMAIN focused_child :
          /\ p \in Nodes(tree)
          /\ focused_child[p] \in Nodes(tree)
          /\ tree.parent[focused_child[p]] = p
          /\ p # root
    /\ hist.op = "focus_down"
          => (focused = hist.pre.focused \/ tree.parent[focused] = hist.pre.focused)
    /\ (hist.op = "focus_down" /\ Moved)
          => focus_up(Self).focused = hist.pre.focused

\* focus_down moved while the map holds entries for two directories.
C33_Witness ==
    /\ hist.op = "focus_down"
    /\ Moved
    /\ Cardinality(DOMAIN focused_child) >= 2

(***************************************************************************)
(* C34: for every line L, L < L.next <= line count and L.prev, when there  *)
(* is one, is below L; so the walks of bounds_of_range_around_line and the *)
(* emit loop of render_around_focus advance and end: the window is         *)
(* returned without an index outside the array and the emitted indices     *)
(* strictly increase.                                                      *)
(***************************************************************************)
C34_LinksAdvance ==
    /\ \A L \in DOMAIN lines.lines :
          /\ L < lines.lines[L].next
          /\ lines.lines[L].next <= lines.count
          /\ lines.lines[L].prev # None
                => (0 <= lines.lines[L].prev /\ lines.lines[L].prev < L)
    /\ Rendered =>
          /\ ~window.oob
          /\ window.start <= window.y
          /\ window.y < window.end
          /\ Len(window.emitted) <= lines.count
          /\ \A k \in 1..(Len(window.emitted) - 1) :
                window.emitted[k] < window.emitted[k + 1]

\* A rendering whose emit loop steps over the lines of a folded directory.
C34_Witness ==
    /\ Rendered
    /\ Len(window.emitted) >= 2
    /\ \E k \in 1..(Len(window.emitted) - 1) :
          window.emitted[k + 1] > window.emitted[k] + 1

(***************************************************************************)
(* C35: for every line, the root line included, and every width >= 1 the   *)
(* cost computed by visual_lines_for_line is                               *)
(* 1 + (prefix_length + 1 + name_length) div width.                        *)
(***************************************************************************)
Measured == measured # NoMeasure

MeasuredLine == lines.lines[measured.l_ind]

C35_CostOfEveryLine ==
    Measured =>
        measured.value =
            1 + ((PrefixLen(MeasuredLine.prefix) + 1 + tree.data[MeasuredLine.node].name)
                    \div measured.width)

(***************************************************************************)
(* C35, amended: the cost of a line below the root is                      *)
(* 1 + (prefix_length + 1 + name_length) div width; the cost of the root   *)
(* line, whose prefix is empty, is 1 + name_length div width.              *)
(***************************************************************************)
C35_CostWithoutSpaceForRoot ==
    Measured =>
        /\ (measured.l_ind = 0) <=> (MeasuredLine.prefix = <<>>)
        /\ measured.value =
              IF measured.l_ind = 0
              THEN 1 + (tree.data[root].name \div measured.width)
              ELSE 1 + ((PrefixLen(MeasuredLine.prefix) + 1
                           + tree.data[MeasuredLine.node].name) \div measured.width)

\* The root line measured at a width that its name with one more byte would
\* fill, and that it does not fill.
C35_Witness ==
    /\ Measured
    /\ measured.l_ind = 0
    /\ (tree.data[root].name + 1) % measured.width = 0
    /\ measured.value = 1 + (tree.data[root].name \div measured.width)

(***************************************************************************)
(* C36: the initial focus is the first child of the root, which is the     *)
(* first entry yielded by the walker after the root; the initial focus is  *)
(* the root only when the root has no children.                            *)
(***************************************************************************)
C36_FocusFirstYielded ==
    Built =>
        IF tree.kids[root] = <<>> THEN focused = root
        ELSE /\ focused = tree.kids[root][1]
             /\ tree.data[focused].de = OkItems(walk)[2]

(***************************************************************************)
(* C36, amended: the initial focus is the first child of the root, which   *)
(* is the first entry after the root that the builder keeps (with          *)
(* only_dirs, the first that is or points to a directory); the initial     *)
(* focus is the root only when the root has no children, that is when no   *)
(* entry is kept.                                                          *)
(***************************************************************************)
Kept(e) == ~options.only_dirs \/ is_or_points_to_dir(e)

C36_FocusFirstKept ==
    Built =>
        LET es == OkItems(walk)
            kept == {k \in 2..Len(es) : Kept(es[k])}
        IN  /\ (tree.kids[root] = <<>>) <=> (kept = {})
            /\ (focused = root) <=> (tree.kids[root] = <<>>)
            /\ kept # {} =>
                  /\ focused = tree.kids[root][1]
                  /\ tree.data[focused].de = es[CHOOSE k \in kept : \A j \in kept : k <= j]

\* With only_dirs, a walk whose first entry after the root is a file and
\* that has a directory later.
C36_Witness ==
    /\ Built
    /\ options.only_dirs
    /\ Len(walk) >= 3
    /\ walk[2].kind = "file"
    /\ focused # root

(***************************************************************************)
(* C38: with only_dirs the tree holds exactly the stream's entries that    *)
(* are or point to directories, each below the latest earlier such entry   *)
(* of depth one less; n_files is 0 and n_dirs the number of non-root       *)
(* nodes; the dropped entries do not change where the directories go.      *)
(***************************************************************************)
DirsOf(s) == <<s[1]>> \o SelectSeq(Tail(OkItems(s)), is_or_points_to_dir)

C38_OnlyDirs ==
    (Built /\ options.only_dirs) =>
        LET ds == DirsOf(walk)
        IN  /\ Len(tree.parent) = Len(ds)
            /\ \A k \in 1..Len(ds) : tree.data[k].de = ds[k]
            /\ \A k \in 2..Len(ds) :
                  LET p == tree.parent[k]
                  IN  /\ p \in 1..(k - 1)
                      /\ ds[p].depth = ds[k].depth - 1
                      /\ \A j \in (p + 1)..(k - 1) : ds[j].depth # ds[k].depth - 1
            /\ n_files = 0
            /\ n_dirs = Len(tree.parent) - 1
            /\ tree.parent = fs_to_tree(ds, FALSE).tree.parent
            /\ tree.kids = fs_to_tree(ds, FALSE).tree.kids

\* With only_dirs, a file dropped by the lookahead of a directory that is
\* followed by a directory one level up, and a symlink to a directory kept.
C38_Witness ==
    /\ Built
    /\ options.only_dirs
    /\ \E i \in 2..(Len(walk) - 2) :
          /\ walk[i].kind = "dir"
          /\ walk[i + 1].kind = "file"
          /\ walk[i + 1].depth = walk[i].depth + 1
          /\ walk[i + 2].kind \in {"dir", "linkdir"}
          /\ walk[i + 2].depth = walk[i].depth
    /\ n_dirs = 2

(***************************************************************************)
(* C37: in the interactive loop the tree is rendered once before any key   *)
(* is read; every key that is not a quit key is handled to completion      *)
(* (Left/h focus_up, Right/l focus_down, Up/k focus_left, Down/j           *)
(* focus_right, f toggle_focus_fold, any other key no change of the tree)  *)
(* and followed by exactly one render before the next key is read; a quit  *)
(* key ends the loop without a render and the summary is printed once.     *)
(***************************************************************************)
C37_RenderAfterEveryKey ==
    /\ term.pc = "start" => (term.keys = 0 /\ term.renders = 0)
    /\ term.keys >= 1 => term.renders >= 1
    /\ term.key \in CommandKeys \cup {"other"} =>
          /\ term.pc = "loop"
          /\ status = "ok"
          /\ term.renders = term.keys + 1
          /\ Rendered
          /\ window.y = lines.inds[focused]
          /\ term.summaries = 0
    /\ term.key \in {"Left", "h"} => hist.op = "focus_up"
    /\ term.key \in {"Right", "l"} => hist.op = "focus_down"
    /\ term.key \in {"Up", "k"} => hist.op = "focus_left"
    /\ term.key \in {"Down", "j"} => hist.op = "focus_right"
    /\ term.key = "f" => hist.op \in {"fold", "unfold", "toggle_noop"}
    /\ term.key = "other" => Mutable(Self) = hist.pre
    /\ term.key \in QuitKeys =>
          /\ term.pc = "done"
          /\ term.renders = term.keys
          /\ term.summaries = 1
          /\ printed = summary([n_dirs |-> n_dirs, n_files |-> n_files])
          /\ Mutable(Self) = hist.pre

(***************************************************************************)
(* C39: the loader thread prints nothing when the signal arrives within    *)
(* the first wait; otherwise it prints `Building tree`, one dot for each   *)
(* further wait that expires, and `done!` once after the signal arrives;   *)
(* the builder's send never fails.  Safety part: what the thread has       *)
(* written is always a beginning of that output.                           *)
(***************************************************************************)
LoaderOutputSoFar ==
    /\ loading.send # "failed"
    /\ loading.out # <<>> =>
          /\ loading.out[1] = "Building tree"
          /\ \A k \in 2..Len(loading.out) :
                \/ loading.out[k] = "."
                \/ /\ loading.out[k] = "done!"
                   /\ k = Len(loading.out)
                   /\ loading.chan = "taken"
    /\ Cardinality({k \in 1..Len(loading.out) : loading.out[k] = "."}) = loading.waits
    /\ (loading.thread = "finished" /\ loading.out # <<>>)
          => loading.out[Len(loading.out)] = "done!"

(***************************************************************************)
(* C39, the whole claim: the output so far is as above in every state,     *)
(* and once the signal is sent to a thread that has printed                *)
(* `Building tree`, `done!` gets printed.                                  *)
(***************************************************************************)
C39_LoaderPrintsDone ==
    /\ []LoaderOutputSoFar
    /\ (loading.send = "ok" /\ loading.out # <<>>)
          ~> (loading.out # <<>> /\ loading.out[Len(loading.out)] = "done!")

(***************************************************************************)
(* C40: a PutBack holds at most one put-back item.  next() yields the      *)
(* item on deck, if there is one, and leaves the underlying iterator where *)
(* it was; otherwise it yields the next item of the underlying iterator.   *)
(* put_back() panics exactly when an item is already on deck, and the      *)
(* construction of the tree from the same stream never ends in that panic. *)
(***************************************************************************)
C40_PutBackOneItem ==
    /\ pbuf.op = "next" =>
          IF pbuf.pre.slot # NoItem
          THEN /\ pbuf.item = pbuf.pre.slot
               /\ pbuf.pb = [it |-> pbuf.pre.it, slot |-> NoItem]
          ELSE IF pbuf.pre.it <= Len(walk)
          THEN /\ pbuf.item = walk[pbuf.pre.it]
               /\ pbuf.pb = [it |-> pbuf.pre.it + 1, slot |-> NoItem]
          ELSE /\ pbuf.item = NoItem
               /\ pbuf.pb = pbuf.pre
    /\ pbuf.op = "put_back" =>
          /\ (pbuf.status = ON_DECK) <=> (pbuf.pre.slot # NoItem)
          /\ pbuf.status \in {"ok", ON_DECK}
          /\ pbuf.status = "ok" => pbuf.pb = [it |-> pbuf.pre.it, slot |-> pbuf.arg]
          /\ pbuf.status = ON_DECK => pbuf.pb = pbuf.pre
    /\ status # ON_DECK

\* next() has just yielded an item put back out of order, ahead of the unread
\* item of the iterator, over a stream whose build put two entries back.
C40_Witness ==
    /\ pbuf.op = "next"
    /\ pbuf.pre.slot # NoItem
    /\ pbuf.pre.it <= Len(walk)
    /\ pbuf.pre.slot # walk[pbuf.pre.it]
    /\ pbuf.item = pbuf.pre.slot
    /\ status = "ok"
    /\ Len(tree.parent) >= 4
====
